---- MODULE Spec2Model ----
(***************************************************************************)
(* Cafe kiosk agent: the in-memory order store (OrderService), the order   *)
(* pipeline (OrderAgent.process_order / process_batch_orders) and the      *)
(* serving router (ServingRouter).                                         *)
(*                                                                         *)
(* Strings of the program are Korean; TLA+ strings are ASCII, so menu      *)
(* names and keywords are written romanised:                               *)
(*   americano = 아메리카노, cafe_latte = 카페라떼, pizza = 피자, ...      *)
(* A text is a sequence of tokens (words, blanks, markup); the string      *)
(* functions of the program are modelled token by token.                   *)
(***************************************************************************)
EXTENDS Integers, Sequences, FiniteSets, TLC

VARIABLES
    \* ---- OrderService (order_service.py) ----
    orders,          \* self.orders: order id -> Order
    order_history,   \* self.order_history: list of Order
    clock,           \* datetime.now() of the order service, in seconds
    nextOid,         \* number of Order objects constructed so far (object identity)
    tax_rate,        \* settings.tax_rate, in percent
    \* ---- OrderAgent (order_agent.py) ----
    tasks,           \* the process_order coroutines of the running batch
    batch,           \* position of process_batch_orders
    results,         \* the list process_batch_orders returns
    \* ---- ServingRouter (serving_router.py) ----
    model_strategy,      \* settings.model_strategy
    enable_local_model,  \* settings.enable_local_model
    llm_service,         \* the module-level LLMService singleton exists
    local_model_status,  \* self.local_model_status (the availability cache)
    serving_history,     \* self.serving_history
    rclock,              \* datetime.now() of the serving router, in minutes
    routes,              \* the route() coroutines in flight
    routeStats,          \* bookkeeping: route calls completed, probes issued
    \* ---- ModelRouter (model_router.py) ----
    selection_history,   \* self.selection_history
    \* ---- single objects and calls ----
    theOrder,            \* one Order object outside the store
    lastCall             \* the latest call made: function, arguments, returned value

storeVars == <<orders, order_history, clock, nextOid, tax_rate>>
agentVars == <<tasks, batch, results>>
servingVars == <<model_strategy, enable_local_model, llm_service,
                 local_model_status, serving_history, rclock, routes, routeStats>>
modelVars == <<selection_history>>
callVars == <<theOrder, lastCall>>
vars == <<storeVars, agentVars, servingVars, modelVars, callVars>>

\* ------------------------------------------------------------------
\* Bounds of the model
\* ------------------------------------------------------------------
MaxOrders == 2      \* Order objects constructed in one run
MaxClock == 1       \* seconds the order-service clock may advance
NumTasks == 2       \* texts in one batch
MaxTime == 6        \* minutes the serving-router clock may advance
MaxRoutes == 2      \* route() calls started in one run
MaxItems == 3       \* items one Order object may hold

\* ------------------------------------------------------------------
\* config/menu_database.py
\* ------------------------------------------------------------------
BEVERAGE == "beverage"
DESSERT == "dessert"
MEAL == "meal"
MenuCategory == {BEVERAGE, DESSERT, MEAL}

TALL == "Tall"
GRANDE == "Grande"
VENTI == "Venti"
SizeOption == {TALL, GRANDE, VENTI}
HOT == "Hot"
ICE == "Ice"
TemperatureOption == {HOT, ICE}
NoValue == "None"

MenuItem(cat, price, sizes, temps) ==
    [category |-> cat, base_price |-> price, available |-> TRUE,
     size_options |-> sizes, temperature_options |-> temps]

BEVERAGE_MENU ==
    <<"americano", "cafe_latte", "cappuccino", "vanilla_latte",
      "caramel_macchiato", "iced_tea", "orange_juice", "green_tea_latte">>
DESSERT_MENU ==
    <<"cake", "cheesecake", "macaron", "cookie", "waffle", "tart", "brownie", "scone">>
MEAL_MENU ==
    <<"sandwich", "bagel", "salad", "pasta", "risotto", "pizza", "croissant",
      "french_toast">>

SeqRange(s) == {s[i] : i \in DOMAIN s}

MENU_DATABASE ==
    [n \in SeqRange(BEVERAGE_MENU) \cup SeqRange(DESSERT_MENU) \cup SeqRange(MEAL_MENU) |->
        CASE n = "americano" -> MenuItem(BEVERAGE, 4500, SizeOption, TemperatureOption)
          [] n = "cafe_latte" -> MenuItem(BEVERAGE, 5000, SizeOption, TemperatureOption)
          [] n = "cappuccino" -> MenuItem(BEVERAGE, 5000, SizeOption, TemperatureOption)
          [] n = "vanilla_latte" -> MenuItem(BEVERAGE, 5500, SizeOption, TemperatureOption)
          [] n = "caramel_macchiato" -> MenuItem(BEVERAGE, 5800, SizeOption, TemperatureOption)
          [] n = "iced_tea" -> MenuItem(BEVERAGE, 4000, SizeOption, {ICE})
          [] n = "orange_juice" -> MenuItem(BEVERAGE, 5500, {TALL, GRANDE}, {ICE})
          [] n = "green_tea_latte" -> MenuItem(BEVERAGE, 5500, SizeOption, TemperatureOption)
          [] n = "cake" -> MenuItem(DESSERT, 6000, {}, {})
          [] n = "cheesecake" -> MenuItem(DESSERT, 6500, {}, {})
          [] n = "macaron" -> MenuItem(DESSERT, 3000, {}, {})
          [] n = "cookie" -> MenuItem(DESSERT, 2500, {}, {})
          [] n = "waffle" -> MenuItem(DESSERT, 7000, {}, {})
          [] n = "tart" -> MenuItem(DESSERT, 6500, {}, {})
          [] n = "brownie" -> MenuItem(DESSERT, 4500, {}, {})
          [] n = "scone" -> MenuItem(DESSERT, 3500, {}, {})
          [] n = "sandwich" -> MenuItem(MEAL, 8000, {}, {})
          [] n = "bagel" -> MenuItem(MEAL, 7000, {}, {})
          [] n = "salad" -> MenuItem(MEAL, 9000, {}, {})
          [] n = "pasta" -> MenuItem(MEAL, 12000, {}, {})
          [] n = "risotto" -> MenuItem(MEAL, 13000, {}, {})
          [] n = "pizza" -> MenuItem(MEAL, 15000, {}, {})
          [] n = "croissant" -> MenuItem(MEAL, 4000, {}, {})
          [] n = "french_toast" -> MenuItem(MEAL, 8500, {}, {})]

get_menu_by_category(category) ==
    CASE category = BEVERAGE -> BEVERAGE_MENU
      [] category = DESSERT -> DESSERT_MENU
      [] category = MEAL -> MEAL_MENU

\* get_menu_item(name, category): the item, or "not found". With a category the
\* lookup is in that category's menu only; without one (NoValue) in all menus.
menu_item_exists(name, category) ==
    IF category # NoValue
    THEN name \in SeqRange(get_menu_by_category(category))
    ELSE name \in DOMAIN MENU_DATABASE

get_menu_item(name) == MENU_DATABASE[name]

\* MenuItem.get_price(size)
get_price(name, size) ==
    LET price == get_menu_item(name).base_price
    IN  IF size = GRANDE THEN price + 500
        ELSE IF size = VENTI THEN price + 1000
        ELSE price

\* ------------------------------------------------------------------
\* src/services/order_service.py
\* ------------------------------------------------------------------
PENDING == "pending"
PROCESSING == "processing"
CONFIRMED == "confirmed"
PREPARING == "preparing"
READY == "ready"
COMPLETED == "completed"
CANCELLED == "cancelled"
OrderStatus == {PENDING, PROCESSING, CONFIRMED, PREPARING, READY, COMPLETED, CANCELLED}

\* An item dict as the extraction step hands it over. keys is the set of keys
\* present in the dict; an absent or null size/temperature is NoValue.
ItemData(menu, quantity, size, temperature) ==
    [keys |-> {"menu", "quantity", "size", "temperature", "options"},
     menu |-> menu, quantity |-> quantity, size |-> size,
     temperature |-> temperature, options |-> <<>>]

\* OrderItem.calculate_subtotal
calculate_subtotal(menu_name, quantity, base_price, size, options) ==
    IF menu_item_exists(menu_name, NoValue)
    THEN (get_price(menu_name, size) + Len(options) * 500) * quantity
    ELSE base_price * quantity

\* The OrderItem built from one item dict in create_order_from_items
\* (SizeOption(value) raising ValueError leaves size None).
OrderItem(item_data, category) ==
    LET quantity == IF "quantity" \in item_data.keys THEN item_data.quantity ELSE 1
        size == IF "size" \in item_data.keys /\ item_data.size \in SizeOption
                THEN item_data.size ELSE NoValue
        options == IF "options" \in item_data.keys THEN item_data.options ELSE <<>>
        base_price == get_menu_item(item_data.menu).base_price
    IN  [menu_name |-> item_data.menu, quantity |-> quantity, category |-> category,
         base_price |-> base_price, size |-> size, options |-> options,
         subtotal |-> calculate_subtotal(item_data.menu, quantity, base_price, size, options)]

RECURSIVE SumSubtotals(_)
SumSubtotals(items) ==
    IF items = <<>> THEN 0 ELSE Head(items).subtotal + SumSubtotals(Tail(items))

\* Order.calculate_amounts: the three amounts of an item list under a tax rate (percent)
calculate_amounts(items, rate) ==
    LET total == SumSubtotals(items)
        tax == IF rate > 0 THEN (total * rate) \div 100 ELSE 0
    IN  [total_amount |-> total, tax_amount |-> tax, final_amount |-> total + tax]

\* OrderService.generate_order_id: "ORD-<timestamp>-<first 8 hex digits of a uuid4>"
UuidPrefixes == {"0a1b2c3d", "9f8e7d6c"}
generate_order_id(now, uuid) == [ts |-> now, uid |-> uuid]
OrderIds == {generate_order_id(t, u) : t \in 0..MaxClock, u \in UuidPrefixes}

RECURSIVE BuildItems(_, _)
BuildItems(items_data, category) ==
    IF items_data = <<>> THEN <<>>
    ELSE LET d == Head(items_data)
             rest == BuildItems(Tail(items_data), category)
         IN  IF "menu" \in d.keys /\ menu_item_exists(d.menu, category)
             THEN <<OrderItem(d, category)>> \o rest
             ELSE rest

\* The Order object create_order_from_items constructs (status Pending). oid is the
\* identity of the object; created_at and updated_at are not kept (nothing the
\* store does reads them).
NewOrder(oid, order_id, items_data, category, rate) ==
    LET items == BuildItems(items_data, category)
        amounts == calculate_amounts(items, rate)
    IN  [oid |-> oid, order_id |-> order_id, items |-> items, status |-> PENDING,
         total_amount |-> amounts.total_amount, tax_amount |-> amounts.tax_amount,
         final_amount |-> amounts.final_amount]

\* self.orders[order_id] = order
StoreOrder(ords, order) == (order.order_id :> order) @@ ords

\* OrderService.create_order_from_items on a store [orders, order_history]
create_order_from_items(store, oid, order_id, items_data, category, rate) ==
    LET order == NewOrder(oid, order_id, items_data, category, rate)
    IN  [store |-> [orders |-> StoreOrder(store.orders, order),
                    order_history |-> store.order_history],
         order |-> order]

\* A variant of update_status that leaves the status as it was
update_status_kept(order, new_status) == order

\* Order.update_status
update_status(order, new_status) == [order EXCEPT !.status = new_status]

RemoveKey(f, k) == [x \in DOMAIN f \ {k} |-> f[x]]

\* The statuses on which update_order_status moves the order to the history
TerminalStatuses == {COMPLETED, CANCELLED}

\* A variant of update_order_status that returns without touching the order
update_order_status_skipped(store, order_id, new_status) == [store |-> store, ret |-> FALSE]

\* OrderService.update_order_status on a store; ret is the returned bool
update_order_status(store, order_id, new_status) ==
    IF order_id \notin DOMAIN store.orders
    THEN [store |-> store, ret |-> FALSE]
    ELSE LET order == update_status(store.orders[order_id], new_status)
         IN  IF new_status \in TerminalStatuses
             THEN [store |-> [orders |-> RemoveKey(store.orders, order_id),
                              order_history |-> Append(store.order_history, order)],
                   ret |-> TRUE]
             ELSE [store |-> [orders |-> [store.orders EXCEPT ![order_id] = order],
                              order_history |-> store.order_history],
                   ret |-> TRUE]

\* A variant of cancel_order that reports success whatever the id
cancel_order_always_true(store, order_id) ==
    [store |-> update_order_status(store, order_id, CANCELLED).store, ret |-> TRUE]

\* OrderService.cancel_order
cancel_order(store, order_id) == update_order_status(store, order_id, CANCELLED)

\* OrderService.get_order: the order, or NoValue for None
get_order(store, order_id) ==
    IF order_id \in DOMAIN store.orders THEN store.orders[order_id] ELSE NoValue

\* the items of the orders of a history whose status is Completed, in the order
\* the loops of get_popular_items visit them
RECURSIVE CompletedItems(_)
CompletedItems(history) ==
    IF history = <<>> THEN <<>>
    ELSE (IF Head(history).status = COMPLETED THEN Head(history).items ELSE <<>>)
             \o CompletedItems(Tail(history))

\* every item of a history, whatever the status of its order
RECURSIVE AllItems(_)
AllItems(history) ==
    IF history = <<>> THEN <<>> ELSE Head(history).items \o AllItems(Tail(history))

\* item_counts: one entry per menu name in insertion order, the quantities added up
RECURSIVE CountItems(_, _)
CountItems(items, counts) ==
    IF items = <<>> THEN counts
    ELSE LET item == Head(items)
             known == \E k \in DOMAIN counts : counts[k].menu_name = item.menu_name
         IN  CountItems(Tail(items),
                 IF known
                 THEN [k \in DOMAIN counts |->
                          IF counts[k].menu_name = item.menu_name
                          THEN [counts[k] EXCEPT !.order_count = @ + item.quantity]
                          ELSE counts[k]]
                 ELSE Append(counts, [menu_name |-> item.menu_name,
                                      order_count |-> item.quantity]))

\* sorted(..., key=count, reverse=True): descending, equal counts keep their order
RECURSIVE SortedByCount(_)
SortedByCount(entries) ==
    IF entries = <<>> THEN <<>>
    ELSE LET front == SortedByCount(SubSeq(entries, 1, Len(entries) - 1))
             e == entries[Len(entries)]
             n == Cardinality({k \in DOMAIN front : front[k].order_count >= e.order_count})
         IN  SubSeq(front, 1, n) \o <<e>> \o SubSeq(front, n + 1, Len(front))

\* seq[:n]
SliceTo(seq, n) ==
    IF n >= 0 THEN SubSeq(seq, 1, IF n < Len(seq) THEN n ELSE Len(seq))
    ELSE SubSeq(seq, 1, IF Len(seq) + n > 0 THEN Len(seq) + n ELSE 0)

\* A variant of get_popular_items that counts every order of the history
get_popular_items_all_history(history, top_n) ==
    SliceTo(SortedByCount(CountItems(AllItems(history), <<>>)), top_n)

\* OrderService.get_popular_items
get_popular_items(history, top_n) ==
    SliceTo(SortedByCount(CountItems(CompletedItems(history), <<>>)), top_n)

TheStore == [orders |-> orders, order_history |-> order_history]

\* ------------------------------------------------------------------
\* Idle values of the parts a specification does not exercise
\* ------------------------------------------------------------------
NoId == [ts |-> 0, uid |-> "none"]

StoreInit ==
    /\ orders = <<>>
    /\ order_history = <<>>
    /\ clock = 0
    /\ nextOid = 0
    /\ tax_rate = 10

AgentIdle ==
    /\ tasks = <<>>
    /\ batch = "idle"
    /\ results = <<>>

ServingIdle ==
    /\ model_strategy = "auto"
    /\ enable_local_model = FALSE
    /\ llm_service = [singleton |-> FALSE, router |-> FALSE]
    /\ local_model_status = [available |-> FALSE, checked |-> FALSE, last_checked |-> 0]
    /\ serving_history = <<>>
    /\ rclock = 0
    /\ routes = <<>>
    /\ routeStats = [started |-> 0, completed |-> 0, last |-> [returned |-> FALSE]]

ModelIdle == selection_history = <<>>

NoCall == [fn |-> "none"]
NoOrder == [exists |-> FALSE, items |-> <<>>]
CallIdle ==
    /\ theOrder = NoOrder
    /\ lastCall = NoCall

\* ------------------------------------------------------------------
\* SpecStore: the OrderService called directly
\* ------------------------------------------------------------------
StoreItemLists ==
    { <<ItemData("americano", 2, NoValue, NoValue)>>,
      <<ItemData("cake", 1, NoValue, NoValue), ItemData("cafe_latte", 1, GRANDE, ICE)>> }

\* await order_service.create_order_from_items(items_data, category)
SvcCreate(items_data, category, uuid) ==
    /\ nextOid < MaxOrders
    /\ LET r == create_order_from_items(TheStore, nextOid + 1,
                    generate_order_id(clock, uuid), items_data, category, tax_rate)
       IN  /\ orders' = r.store.orders
           /\ order_history' = r.store.order_history
    /\ nextOid' = nextOid + 1
    /\ UNCHANGED <<modelVars, callVars, clock, tax_rate, agentVars, servingVars>>

\* await order_service.update_order_status(order_id, new_status)
SvcUpdate(order_id, new_status) ==
    /\ LET r == update_order_status(TheStore, order_id, new_status)
       IN  /\ orders' = r.store.orders
           /\ order_history' = r.store.order_history
    /\ UNCHANGED <<modelVars, callVars, clock, nextOid, tax_rate, agentVars, servingVars>>

\* await order_service.cancel_order(order_id)
SvcCancel(order_id) ==
    /\ LET r == cancel_order(TheStore, order_id)
       IN  /\ orders' = r.store.orders
           /\ order_history' = r.store.order_history
    /\ UNCHANGED <<modelVars, callVars, clock, nextOid, tax_rate, agentVars, servingVars>>

\* a second passes
SvcTick ==
    /\ clock < MaxClock
    /\ clock' = clock + 1
    /\ UNCHANGED <<modelVars, callVars, orders, order_history, nextOid, tax_rate, agentVars, servingVars>>

InitStore == StoreInit /\ AgentIdle /\ ServingIdle /\ ModelIdle /\ CallIdle

NextStore ==
    \/ \E items_data \in StoreItemLists, uuid \in UuidPrefixes :
            SvcCreate(items_data, BEVERAGE, uuid)
    \/ \E order_id \in OrderIds, new_status \in OrderStatus : SvcUpdate(order_id, new_status)
    \/ \E order_id \in OrderIds : SvcCancel(order_id)
    \/ SvcTick

SpecStore == InitStore /\ [][NextStore]_vars

\* ------------------------------------------------------------------
\* Properties of the order store (SpecStore)
\* ------------------------------------------------------------------
ActivePlaces(oid) == {id \in DOMAIN orders : orders[id].oid = oid}
HistoryPlaces(oid) == {i \in DOMAIN order_history : order_history[i].oid = oid}
StoredIds == DOMAIN orders \cup {order_history[i].order_id : i \in DOMAIN order_history}

\* C1: every order created so far is in exactly one of the active map and the
\* history list: never in both, never twice in the history, never in neither.
C1_ExactlyOnePlace ==
    \A oid \in 1..nextOid :
        Cardinality(ActivePlaces(oid)) + Cardinality(HistoryPlaces(oid)) = 1

\* C1, second half: an order appears in the history only in a step that is an
\* update_order_status to Completed or Cancelled of an order that was active.
C1_MovesOnlyOnTerminalUpdate ==
    [][\A oid \in 1..nextOid :
          (HistoryPlaces(oid) = {} /\ HistoryPlaces(oid)' # {})
              => \E id \in DOMAIN orders, st \in TerminalStatuses :
                    /\ orders[id].oid = oid
                    /\ orders' = update_order_status(TheStore, id, st).store.orders
                    /\ order_history' = update_order_status(TheStore, id, st).store.order_history
                    /\ order_history'[Len(order_history')].status = st]_vars

\* C7: the id given to a new order is distinct from every id generated before it
\* (the ids generated so far are exactly the ids of the stored orders: an order
\* that was overwritten shares its id with the order that replaced it), and
\* storing the new order replaces no order of the active map.
C7_FreshOrderId ==
    [][nextOid' = nextOid + 1
          => \A id \in DOMAIN orders' :
                orders'[id].oid = nextOid' => id \notin StoredIds]_vars

\* ------------------------------------------------------------------
\* Texts. A text is a sequence of tokens; a token stands for a run of
\* characters of one class:
\*   word    Hangul or Latin letters        digit   one decimal digit
\*   space   one blank                      punct   one of . , ! ? ( ) + -
\*   tag     an HTML-like tag <...>         sql     the two characters --
\*   unsafe  one character outside the allow-list (here @)
\* Tokens (Korean romanised): annyeong 안녕, gae 개, han 한, juseyo 주세요,
\* ice_kr 아이스, venti_kr 벤티, americano 아메리카노, bagel 베이글,
\* cake 케이크, cheesecake 치즈케이크, pizza 피자.  LONGWORD is a run of 501 letters.
\* ------------------------------------------------------------------
TokenKind(tok) ==
    CASE tok = " " -> "space"
      [] tok \in {"1", "2", "3"} -> "digit"
      [] tok \in {"!", "."} -> "punct"
      [] tok \in {"<b>", "</b>"} -> "tag"
      [] tok = "--" -> "sql"
      [] tok = "@" -> "unsafe"
      [] OTHER -> "word"

\* number of characters of a token
TokenLen(tok) ==
    CASE tok \in {" ", "1", "2", "3", "!", ".", "@", "gae", "han", "hong", "tcha"} -> 1
      [] tok \in {"--", "annyeong", "pizza", "venti_kr"} -> 2
      [] tok \in {"<b>", "cake", "bagel", "ice_kr", "juseyo", "house", "blend"} -> 3
      [] tok = "</b>" -> 4
      [] tok \in {"americano", "cheesecake"} -> 5
      [] tok = "LONGWORD" -> 501
      [] OTHER -> 4

RECURSIVE TextLen(_)
TextLen(text) == IF text = <<>> THEN 0 ELSE TokenLen(Head(text)) + TextLen(Tail(text))

\* the value passed where a str is expected but is not one (None)
NotAString == <<"\\None">>

RECURSIVE LStrip(_)
LStrip(text) ==
    IF text # <<>> /\ TokenKind(Head(text)) = "space" THEN LStrip(Tail(text)) ELSE text

RECURSIVE RStrip(_)
RStrip(text) ==
    IF text # <<>> /\ TokenKind(text[Len(text)]) = "space"
    THEN RStrip(SubSeq(text, 1, Len(text) - 1)) ELSE text

\* str.strip()
Strip(text) == RStrip(LStrip(text))

NoError == "ok"

\* OrderValidator.validate_order_text: the error code, or NoError
validate_order_text(order_text) ==
    IF order_text = <<>> \/ Strip(order_text) = <<>> THEN "empty_order"
    ELSE IF TextLen(Strip(order_text)) < 2 THEN "order_too_short"
    ELSE IF TextLen(order_text) > 500 THEN "order_too_long"
    ELSE NoError

\* InputSanitizer.sanitize_text: tags and the SQL comment patterns are removed
SanitizerKeeps(tok) == TokenKind(tok) \notin {"tag", "sql"}
sanitize_text(text) == Strip(SelectSeq(text, SanitizerKeeps))

\* InputSanitizer.validate_safe_characters
SafeKinds == {"word", "digit", "space", "punct"}
validate_safe_characters(text) == \A i \in DOMAIN text : TokenKind(text[i]) \in SafeKinds

\* TextNormalizer.normalize_whitespace: runs of blanks become one blank, ends trimmed
RECURSIVE CollapseSpaces(_)
CollapseSpaces(text) ==
    IF Len(text) < 2 THEN text
    ELSE IF TokenKind(text[1]) = "space" /\ TokenKind(text[2]) = "space"
         THEN CollapseSpaces(Tail(text))
         ELSE <<Head(text)>> \o CollapseSpaces(Tail(text))
normalize_whitespace(text) == CollapseSpaces(Strip(text))

\* TextNormalizer.normalize_numbers: a Korean number word standing alone (\b on
\* both sides: no letter or digit next to it) becomes its digit
NumberWord(tok) == CASE tok = "han" -> "1" [] OTHER -> tok
WordChar(text, i) == i \in DOMAIN text /\ TokenKind(text[i]) \in {"word", "digit"}
normalize_numbers(text) ==
    [i \in DOMAIN text |->
        IF ~WordChar(text, i - 1) /\ ~WordChar(text, i + 1) THEN NumberWord(text[i])
        ELSE text[i]]

\* str.lower(): the Latin letters of a token in lower case
Lower(tok) ==
    CASE tok = "Phone" -> "phone"
      [] tok = "ADDRESS" -> "address"
      [] tok = "Meal" -> "meal"
      [] tok = "Tall" -> "tall"
      [] tok = "Grande" -> "grande"
      [] tok = "Venti" -> "venti"
      [] tok = "Large" -> "large"
      [] tok = "Hot" -> "hot"
      [] tok = "Ice" -> "ice"
      [] tok = "HIGH" -> "high"
      [] OTHER -> tok

\* ------------------------------------------------------------------
\* Substring tests ("kw in text"). A token contains a key when it is the key or
\* when the pair is listed here (the Korean word of the token contains the key):
\*   치즈케이크 contains 케이크, 벤티 contains 티 (a beverage keyword),
\*   음료수 contains 음료, 아이스티 contains 아이스 and 티, 오렌지주스 contains 주스,
\*   postcard contains card
\* ------------------------------------------------------------------
SubstringPairs ==
    { <<"cheesecake", "cake">>, <<"venti_kr", "ti">>, <<"eumryosu", "eumryo">>,
      <<"iced_tea", "ice_kr">>, <<"iced_tea", "ti">>, <<"orange_juice", "juice">>,
      <<"postcard", "card">> }
Contains(tok, key) == tok = key \/ <<tok, key>> \in SubstringPairs

\* key in text.lower()
InLower(key, text) == \E i \in DOMAIN text : Contains(Lower(text[i]), key)
\* key in text
InText(key, text) == \E i \in DOMAIN text : Contains(text[i], key)

\* ------------------------------------------------------------------
\* src/routers/category_router.py
\* ------------------------------------------------------------------
\* CategoryRouter._build_category_keywords (romanised, in source order)
category_keywords(category) ==
    CASE category = BEVERAGE ->
            <<"eumryo", "keopi", "latte", "americano", "juice", "ti", "cha", "masi",
              "drink", "coffee", "eumryosu", "siwonhan", "ttatteuthan">>
      [] category = DESSERT ->
            <<"dessert_kr", "cake", "ppang", "cookie", "macaron", "waffle", "dalkomhan",
              "dessert", "sweet", "gansik", "husik", "tart", "scone">>
      [] category = MEAL ->
            <<"siksa", "kkini", "sandwich", "pasta", "salad", "pizza", "meal", "food",
              "meogeul", "baego", "jeomsim", "jeonyeok", "achim">>

CategoryOrder == <<BEVERAGE, DESSERT, MEAL>>

\* score of one category: the number of its keywords found in the lowered text
KeywordScore(category, text) ==
    Cardinality({i \in DOMAIN category_keywords(category) :
                    InLower(category_keywords(category)[i], text)})

\* max(scores, key=scores.get): the first category, in dict order, of maximal score
MaxCategory(text) ==
    LET best == CHOOSE i \in DOMAIN CategoryOrder :
                    /\ \A j \in DOMAIN CategoryOrder :
                          KeywordScore(CategoryOrder[j], text) <= KeywordScore(CategoryOrder[i], text)
                    /\ \A j \in 1..(i - 1) :
                          KeywordScore(CategoryOrder[j], text) < KeywordScore(CategoryOrder[i], text)
    IN  CategoryOrder[best]

TotalScore(text) ==
    KeywordScore(BEVERAGE, text) + KeywordScore(DESSERT, text) + KeywordScore(MEAL, text)

\* A RouteDecision; the confidence is the fraction num/den
RouteDecision(category, num, den, reasoning) ==
    [category |-> category, num |-> num, den |-> den, reasoning |-> reasoning]
NoDecision == RouteDecision(NoValue, 0, 1, "none")

\* CategoryRouter._classify_by_keywords: a decision, or NoDecision for None
\* (confidence < 0.6 is 5 * max < 3 * total)
classify_by_keywords(text) ==
    LET total == TotalScore(text)
        top == KeywordScore(MaxCategory(text), text)
    IN  IF total = 0 THEN NoDecision
        ELSE IF 5 * top < 3 * total THEN NoDecision
        ELSE RouteDecision(MaxCategory(text), top, total, "keyword")

\* A variant of FastPath that takes every usable keyword decision (0.6 and above)
FastPath_at_usable(text) == classify_by_keywords(text) # NoDecision

\* keyword_result and keyword_result.confidence > 0.8
FastPath(text) ==
    LET k == classify_by_keywords(text)
    IN  k # NoDecision /\ 5 * k.num > 4 * k.den

\* CategoryRouter._parse_category: the first label of the map, in map order, that
\* occurs in the stripped, lowered answer; Beverage when none does
CategoryLabels ==
    << <<"eumryo", BEVERAGE>>, <<"beverage", BEVERAGE>>, <<"dessert_kr", DESSERT>>,
       <<"dessert", DESSERT>>, <<"siksa", MEAL>>, <<"meal", MEAL>> >>
\* A variant of parse_category that knows the Korean labels only
parse_category_korean_only(category_str) ==
    LET hits == {i \in {1, 3, 5} : InLower(CategoryLabels[i][1], Strip(category_str))}
    IN  IF hits = {} THEN BEVERAGE
        ELSE CategoryLabels[CHOOSE i \in hits : \A j \in hits : i <= j][2]

parse_category(category_str) ==
    LET hits == {i \in DOMAIN CategoryLabels : InLower(CategoryLabels[i][1], Strip(category_str))}
    IN  IF hits = {} THEN BEVERAGE
        ELSE CategoryLabels[CHOOSE i \in hits : \A j \in hits : i <= j][2]

\* What the gateway's classify_category call comes back with: an answer text, or
\* a failure (transport error, timeout)
GatewayFailure == [ok |-> FALSE, text |-> <<>>]
GatewayAnswer(text) == [ok |-> TRUE, text |-> text]

\* A variant of decision_after_classification that treats a failed call as an
\* answer without a label
decision_after_classification_unmarked(response) ==
    RouteDecision(parse_category(response.text), 9, 10, "LLM classification")

\* CategoryRouter.route after the gateway call: the lines of the try block and
\* of the except block
decision_after_classification(response) ==
    IF response.ok
    THEN RouteDecision(parse_category(response.text), 9, 10, "LLM classification")
    ELSE RouteDecision(BEVERAGE, 1, 2, "Fallback to default category")

\* CategoryRouter.get_available_menus
IsAvailable(name) == get_menu_item(name).available
get_available_menus(category) == SelectSeq(get_menu_by_category(category), IsAvailable)

\* CategoryRouter.validate_category_items raises (AttributeError) on an element
\* without .get
category_items_raise(items) == \E i \in DOMAIN items : items[i].keys = {"\\notdict"}

\* A variant of validate_category_items that keeps every item
validate_category_items_unfiltered(category, items) == items

\* CategoryRouter.validate_category_items
validate_category_items(category, items) ==
    LET InCategory(item) ==
            "menu" \in item.keys /\ item.menu \in SeqRange(get_available_menus(category))
    IN  SelectSeq(items, InCategory)

\* ------------------------------------------------------------------
\* src/services/llm_service.py
\* ------------------------------------------------------------------
\* LLMService._fallback_extraction: the first available menu whose name occurs in
\* the lowered text; quantity the least digit 1..9 occurring in the text
DigitStr == <<"1", "2", "3", "4", "5", "6", "7", "8", "9">>
FallbackQuantity(order_text) ==
    LET present == {d \in DOMAIN DigitStr : InText(DigitStr[d], order_text)}
    IN  IF present = {} THEN 1 ELSE CHOOSE d \in present : \A e \in present : d <= e

FallbackSize(order_text) ==
    IF InLower("tol_kr", order_text) \/ InLower("tall", order_text) THEN TALL
    ELSE IF InLower("grande_kr", order_text) \/ InLower("grande", order_text) THEN GRANDE
    ELSE IF InLower("venti_kr", order_text) \/ InLower("venti", order_text) THEN VENTI
    ELSE NoValue

FallbackTemperature(order_text) ==
    IF InLower("ice_kr", order_text) \/ InLower("ice", order_text)
          \/ InLower("chaga", order_text) THEN ICE
    ELSE IF InLower("hot_kr", order_text) \/ InLower("hot", order_text)
          \/ InLower("tteugeo", order_text) THEN HOT
    ELSE NoValue

\* menu.lower().split(): the words of a menu name. The names of the menu database
\* are single words; house blend (하우스 블렌드) and hong tcha (홍 차) are names of
\* two words a caller can pass.
MenuParts(menu) ==
    CASE menu = "house blend" -> <<"house", "blend">>
      [] menu = "hong tcha" -> <<"hong", "tcha">>
      [] OTHER -> <<Lower(menu)>>

\* menu_lower in order_lower: the words of the name, one blank apart, in the text
NameInLower(menu, order_text) ==
    LET parts == MenuParts(menu)
    IN  IF Len(parts) = 1 THEN InLower(parts[1], order_text)
        ELSE \E i \in DOMAIN order_text :
                \A k \in DOMAIN parts :
                    /\ i + 2 * (k - 1) \in DOMAIN order_text
                    /\ Lower(order_text[i + 2 * (k - 1)]) = parts[k]
                    /\ k > 1 => order_text[i + 2 * (k - 1) - 1] = " "

\* the condition of the menu loop: the name, or a word of it longer than 2
\* characters, occurs in the lowered text
MenuMatches(menu, order_text) ==
    \/ NameInLower(menu, order_text)
    \/ \E k \in DOMAIN MenuParts(menu) :
          TokenLen(MenuParts(menu)[k]) > 2 /\ InLower(MenuParts(menu)[k], order_text)

fallback_extraction(order_text, available_menus) ==
    LET hits == {i \in DOMAIN available_menus : MenuMatches(available_menus[i], order_text)}
    IN  IF hits = {} THEN <<>>
        ELSE << ItemData(available_menus[CHOOSE i \in hits : \A j \in hits : i <= j],
                         FallbackQuantity(order_text), FallbackSize(order_text),
                         FallbackTemperature(order_text)) >>

\* What the gateway's extraction call comes back with:
\*   error      the call raised (transport error, timeout)
\*   empty      an empty or blank completion
\*   malformed  text that json.loads rejects
\*   null       a JSON object whose "items" is null (len(items) raises inside the try)
\*   json       a JSON object whose "items" is the list items
ExtractionResponse(kind, items) == [kind |-> kind, items |-> items]
FailureKinds == {"error", "empty", "malformed", "null"}

\* A variant of extract_order_items without the fallback: a failed call yields no items
extract_order_items_no_fallback(response, order_text, available_menus) ==
    IF response.kind \in FailureKinds THEN <<>> ELSE response.items

\* LLMService.extract_order_items: the returned list
extract_order_items(response, order_text, available_menus) ==
    IF response.kind \in FailureKinds
    THEN fallback_extraction(order_text, available_menus)
    ELSE response.items

\* An element of a returned "items" list that is not a JSON object (item.get raises)
NotADict == [keys |-> {"\\notdict"}]

\* ------------------------------------------------------------------
\* src/utils/validators.py, OrderValidator
\* ------------------------------------------------------------------
\* One entry of an errors list: the item position (0: not about an item) and a code
Err(idx, code) == [idx |-> idx, code |-> code]

\* validate_menu_item(menu_name) without a category
validate_menu_item(menu_name) ==
    IF ~menu_item_exists(menu_name, NoValue) THEN "menu_not_found"
    ELSE IF ~get_menu_item(menu_name).available THEN "menu_unavailable"
    ELSE NoError

\* validate_quantity
validate_quantity(quantity) ==
    IF quantity < 1 THEN "invalid_quantity"
    ELSE IF quantity > 99 THEN "quantity_too_large"
    ELSE NoError

\* size_map.get(size.lower())
size_map(size) ==
    CASE Lower(size) \in {"tol_kr", "tall"} -> TALL
      [] Lower(size) \in {"grande_kr", "grande"} -> GRANDE
      [] Lower(size) \in {"venti_kr", "venti"} -> VENTI
      [] OTHER -> NoValue

\* validate_size
validate_size(size, menu_name) ==
    IF size_map(size) = NoValue THEN "invalid_size"
    ELSE IF menu_item_exists(menu_name, NoValue)
            /\ size_map(size) \notin get_menu_item(menu_name).size_options
         THEN "size_not_available"
    ELSE NoError

\* temp_map.get(temperature.lower())
temp_map(temperature) ==
    CASE Lower(temperature) \in {"tteugeoun", "hot_kr", "hot"} -> HOT
      [] Lower(temperature) \in {"chagaun", "ice_kr", "ice", "iced"} -> ICE
      [] OTHER -> NoValue

\* validate_temperature
validate_temperature(temperature, menu_name) ==
    IF temp_map(temperature) = NoValue THEN "invalid_temperature"
    ELSE IF menu_item_exists(menu_name, NoValue)
            /\ temp_map(temperature) \notin get_menu_item(menu_name).temperature_options
         THEN "temperature_not_available"
    ELSE NoError

\* The first failing check of one item in validate_order_items, or NoError
ItemError(item) ==
    IF "menu" \notin item.keys THEN "missing_menu"
    ELSE IF "quantity" \notin item.keys THEN "missing_quantity"
    ELSE IF validate_menu_item(item.menu) # NoError THEN validate_menu_item(item.menu)
    ELSE IF validate_quantity(item.quantity) # NoError THEN validate_quantity(item.quantity)
    ELSE IF "size" \in item.keys /\ item.size # NoValue
            /\ validate_size(item.size, item.menu) # NoError
         THEN validate_size(item.size, item.menu)
    ELSE IF "temperature" \in item.keys /\ item.temperature # NoValue
            /\ validate_temperature(item.temperature, item.menu) # NoError
         THEN validate_temperature(item.temperature, item.menu)
    ELSE NoError

RECURSIVE ItemErrors(_, _)
ItemErrors(items, idx) ==
    IF idx > Len(items) THEN <<>>
    ELSE IF ItemError(items[idx]) = NoError THEN ItemErrors(items, idx + 1)
    ELSE <<Err(idx, ItemError(items[idx]))>> \o ItemErrors(items, idx + 1)

\* A variant of validate_order_items that stops at the first failing item
validate_order_items_first_error(items) ==
    IF items = <<>> THEN <<Err(0, "no_items")>>
    ELSE IF ItemErrors(items, 1) = <<>> THEN <<>>
    ELSE <<Head(ItemErrors(items, 1))>>

\* validate_order_items: the errors list (empty: the list is valid)
validate_order_items(items) ==
    IF items = <<>> THEN <<Err(0, "no_items")>> ELSE ItemErrors(items, 1)

\* ------------------------------------------------------------------
\* src/agents/order_agent.py
\* ------------------------------------------------------------------
\* OrderProcessResult. The order is named by its identity (oid) and its id; the
\* message is one of: accepted, invalid_text, unsafe_text, no_items, invalid_items,
\* processing_error (the except branch of process_order), batch_failure (the
\* exception branch of process_batch_orders)
OrderProcessResult(success, oid, order_id, message, errors) ==
    [success |-> success, oid |-> oid, order_id |-> order_id, message |-> message,
     errors |-> errors]
Failed(message, errors) == OrderProcessResult(FALSE, 0, NoId, message, errors)
NoResult == Failed("none", <<>>)

\* OrderAgent._validate_and_sanitize
validate_and_sanitize(order_text) ==
    LET clean_text == sanitize_text(order_text)
    IN  IF validate_order_text(order_text) # NoError
        THEN [success |-> FALSE, message |-> "invalid_text",
              errors |-> <<Err(0, validate_order_text(order_text))>>, text |-> <<>>]
        ELSE IF ~validate_safe_characters(clean_text)
        THEN [success |-> FALSE, message |-> "unsafe_text",
              errors |-> <<Err(0, "unsafe_characters")>>, text |-> <<>>]
        ELSE [success |-> TRUE, message |-> "ok", errors |-> <<>>,
              text |-> normalize_numbers(normalize_whitespace(clean_text))]

\* the clean_text of a run that passed step 1
CleanText(order_text) == validate_and_sanitize(order_text).text

\* A variant of start_segment that issues the classification call before it
\* validates the text
start_segment_route_first(order_text) ==
    IF order_text = NotAString
    THEN [pc |-> "raised", category |-> NoValue, calls |-> 0, result |-> NoResult]
    ELSE LET validated == validate_and_sanitize(order_text)
         IN  IF ~validated.success
             THEN [pc |-> "done", category |-> NoValue, calls |-> 1,
                   result |-> Failed(validated.message, validated.errors)]
             ELSE [pc |-> "classify_wait", category |-> NoValue, calls |-> 1,
                   result |-> NoResult]

\* process_order from its entry to its first suspension or its return:
\*   order_text[:100] raises on a value that is not a string, before the try;
\*   a failed validation returns at once;
\*   CategoryRouter.route returns without a gateway call when the keyword
\*   confidence is above 0.8, and process_order goes on to the extraction call;
\*   otherwise route suspends in the classification call.
\* calls counts the gateway calls issued so far.
start_segment(order_text) ==
    IF order_text = NotAString
    THEN [pc |-> "raised", category |-> NoValue, calls |-> 0, result |-> NoResult]
    ELSE LET validated == validate_and_sanitize(order_text)
             normalized_text == normalize_whitespace(validated.text)
         IN  IF ~validated.success
             THEN [pc |-> "done", category |-> NoValue, calls |-> 0,
                   result |-> Failed(validated.message, validated.errors)]
             ELSE IF FastPath(normalized_text)
             THEN [pc |-> "extract_wait",
                   category |-> classify_by_keywords(normalized_text).category,
                   calls |-> 1, result |-> NoResult]
             ELSE [pc |-> "classify_wait", category |-> NoValue, calls |-> 1,
                   result |-> NoResult]

\* A variant of after_extraction that creates the order before it validates the
\* item list
after_extraction_create_first(store, order_text, category, response, oid, order_id, rate) ==
    LET extracted == extract_order_items(response, CleanText(order_text),
                                         get_available_menus(category))
        items == validate_category_items(category, extracted)
        created == create_order_from_items(store, oid, order_id, items, category, rate)
        confirmed == update_order_status(created.store, order_id, CONFIRMED)
    IN  IF category_items_raise(extracted)
        THEN [store |-> store,
              result |-> Failed("processing_error", <<Err(0, "AttributeError")>>)]
        ELSE IF items = <<>>
        THEN [store |-> store,
              result |-> Failed("no_items", <<Err(0, "no_items_extracted")>>)]
        ELSE IF validate_order_items(items) # <<>>
        THEN [store |-> created.store,
              result |-> Failed("invalid_items", validate_order_items(items))]
        ELSE [store |-> confirmed.store,
              result |-> OrderProcessResult(TRUE, oid, order_id, "accepted", <<>>)]

\* process_order from the return of the extraction call to its return: steps 3
\* (rest), 4, 5 and 6, and the except branch
after_extraction(store, order_text, category, response, oid, order_id, rate) ==
    LET extracted == extract_order_items(response, CleanText(order_text),
                                         get_available_menus(category))
        items == validate_category_items(category, extracted)
        created == create_order_from_items(store, oid, order_id, items, category, rate)
        confirmed == update_order_status(created.store, order_id, CONFIRMED)
    IN  IF category_items_raise(extracted)
        THEN [store |-> store,
              result |-> Failed("processing_error", <<Err(0, "AttributeError")>>)]
        ELSE IF items = <<>>
        THEN [store |-> store,
              result |-> Failed("no_items", <<Err(0, "no_items_extracted")>>)]
        ELSE IF validate_order_items(items) # <<>>
        THEN [store |-> store,
              result |-> Failed("invalid_items", validate_order_items(items))]
        ELSE [store |-> confirmed.store,
              result |-> OrderProcessResult(TRUE, oid, order_id, "accepted", <<>>)]

\* A variant of processed_results that leaves the exceptions out
processed_results_dropping(gathered) ==
    LET Returned(t) == t.pc # "raised"
        kept == SelectSeq(gathered, Returned)
    IN  [i \in DOMAIN kept |-> kept[i].result]

\* process_batch_orders after gather: an exception becomes a failed result in its
\* place, every other result is kept
processed_results(gathered) ==
    [i \in DOMAIN gathered |->
        IF gathered[i].pc = "raised"
        THEN Failed("batch_failure", <<Err(0, "TypeError")>>)
        ELSE gathered[i].result]

\* ------------------------------------------------------------------
\* The order pipeline: one process_batch_orders call over NumTasks texts.
\* A task is one process_order coroutine; it is suspended only inside a gateway
\* call (asyncio runs every other stretch of it without interleaving).
\*   pc     start, classify_wait, extract_wait, done (returned), raised
\*   calls  gateway calls the run has issued
\*   ekind  how the extraction call came back: "failed" (one of FailureKinds, the
\*          fallback extractor ran), "json" (a parsed item list), "none" (not yet)
\* ------------------------------------------------------------------
OrderTexts ==
    { <<"ice_kr", " ", "americano", " ", "2", "gae">>,
      <<"bagel", " ", "han", " ", "gae">>,
      <<"orange_juice", " ", "venti_kr">>,
      <<"1", " ">>,
      <<>>,
      <<"LONGWORD">>,
      <<"americano", "@">>,
      NotAString }

ClassificationResponses ==
    { GatewayFailure, GatewayAnswer(<<"siksa">>), GatewayAnswer(<<" ", "Meal", ".">>),
      GatewayAnswer(<<"molla">>) }

ItemLists ==
    { <<ItemData("americano", 2, "Tall", "Ice")>>,
      <<ItemData("americano", 1, NoValue, NoValue), ItemData("americano", 150, "Large", NoValue)>>,
      <<ItemData("bagel", 1, NoValue, NoValue)>>,
      <<NotADict>>,
      <<>> }

ExtractionResponses ==
    {ExtractionResponse(k, <<>>) : k \in FailureKinds}
        \cup {ExtractionResponse("json", l) : l \in ItemLists}

NewTask(order_text) ==
    [pc |-> "start", text |-> order_text, category |-> NoValue, calls |-> 0,
     ekind |-> "none", result |-> NoResult]

\* process_batch_orders(order_texts): the coroutines are created
StartBatch(order_texts) ==
    /\ batch = "idle"
    /\ batch' = "running"
    /\ tasks' = [i \in 1..NumTasks |-> NewTask(order_texts[i])]
    /\ UNCHANGED <<modelVars, callVars, results, storeVars, servingVars>>

\* gather starts the coroutines in list order; each runs to its first suspension
ProcessStart(i) ==
    /\ batch = "running"
    /\ tasks[i].pc = "start"
    /\ \A j \in 1..(i - 1) : tasks[j].pc # "start"
    /\ LET seg == start_segment(tasks[i].text)
       IN  tasks' = [tasks EXCEPT ![i].pc = seg.pc, ![i].category = seg.category,
                                  ![i].calls = seg.calls, ![i].result = seg.result]
    /\ UNCHANGED <<modelVars, callVars, batch, results, storeVars, servingVars>>

\* the classification call of task i comes back; route returns and process_order
\* goes on to the extraction call
ClassifyReturn(i, response) ==
    /\ batch = "running"
    /\ tasks[i].pc = "classify_wait"
    /\ tasks' = [tasks EXCEPT ![i].pc = "extract_wait",
                              ![i].category = decision_after_classification(response).category,
                              ![i].calls = @ + 1]
    /\ UNCHANGED <<modelVars, callVars, batch, results, storeVars, servingVars>>

\* the extraction call of task i comes back; process_order runs to its return
ExtractReturn(i, response, uuid) ==
    /\ batch = "running"
    /\ tasks[i].pc = "extract_wait"
    /\ LET out == after_extraction(TheStore, tasks[i].text, tasks[i].category, response,
                                   nextOid + 1, generate_order_id(clock, uuid), tax_rate)
       IN  /\ tasks' = [tasks EXCEPT ![i].pc = "done", ![i].ekind = IF response.kind \in FailureKinds THEN "failed" ELSE "json",
                                     ![i].result = out.result]
           /\ orders' = out.store.orders
           /\ order_history' = out.store.order_history
           /\ nextOid' = IF out.result.success THEN nextOid + 1 ELSE nextOid
    /\ UNCHANGED <<modelVars, callVars, batch, results, clock, tax_rate, servingVars>>

\* gather returns when every coroutine has returned or raised
BatchJoin ==
    /\ batch = "running"
    /\ \A i \in DOMAIN tasks : tasks[i].pc \in {"done", "raised"}
    /\ results' = processed_results(tasks)
    /\ batch' = "joined"
    /\ UNCHANGED <<modelVars, callVars, tasks, storeVars, servingVars>>

\* The batch runs within one second of the clock: every id it generates carries
\* the same timestamp.
Init == StoreInit /\ AgentIdle /\ ServingIdle /\ ModelIdle /\ CallIdle

Next ==
    \/ \E order_texts \in [1..NumTasks -> OrderTexts] : StartBatch(order_texts)
    \/ \E i \in DOMAIN tasks : ProcessStart(i)
    \/ \E i \in DOMAIN tasks, response \in ClassificationResponses : ClassifyReturn(i, response)
    \/ \E i \in DOMAIN tasks, response \in ExtractionResponses, uuid \in UuidPrefixes :
          ExtractReturn(i, response, uuid)
    \/ BatchJoin

Spec == Init /\ [][Next]_vars

\* ------------------------------------------------------------------
\* Properties of the order pipeline (Spec)
\* ------------------------------------------------------------------
\* task i returns in this step
Returns(i) == tasks[i].pc # "done" /\ tasks'[i].pc = "done"

\* C2: whenever process_order returns a success result, the returned order is in
\* the active map under its order id with status Confirmed (never Pending, never
\* absent)
C2_SuccessIsConfirmedAndStored ==
    [][\A i \in DOMAIN tasks :
          (Returns(i) /\ tasks'[i].result.success) =>
              LET r == tasks'[i].result
              IN  /\ r.order_id \in DOMAIN orders'
                  /\ orders'[r.order_id].oid = r.oid
                  /\ orders'[r.order_id].status = CONFIRMED]_vars

C2_Witness ==
    \E i \in DOMAIN tasks :
        /\ tasks[i].pc = "done"
        /\ tasks[i].result.success
        /\ tasks[i].result.order_id \in DOMAIN orders
        /\ orders[tasks[i].result.order_id].oid = tasks[i].result.oid
        /\ orders[tasks[i].result.order_id].status = CONFIRMED

\* C3: a process_order run that ends rejected (text validation failure, unsafe
\* characters, no items extracted, item-list validation failure) creates no
\* order: its returning step leaves the active map and the history list as they
\* were, and the store changes only in a step where a run returns success
RejectedMessages == {"invalid_text", "unsafe_text", "no_items", "invalid_items"}
C3_RejectedCreatesNoOrder ==
    [][/\ \A i \in DOMAIN tasks :
             (Returns(i) /\ tasks'[i].result.message \in RejectedMessages) =>
                 (orders' = orders /\ order_history' = order_history /\ nextOid' = nextOid)
       /\ (orders' # orders \/ order_history' # order_history) =>
             \E i \in DOMAIN tasks : Returns(i) /\ tasks'[i].result.success]_vars

C3_Witness ==
    \E i \in DOMAIN tasks :
        /\ tasks[i].pc = "done"
        /\ tasks[i].result.message = "invalid_items"
        /\ \E k \in DOMAIN tasks[i].result.errors :
              tasks[i].result.errors[k].code = "quantity_too_large"
        /\ orders = <<>>
        /\ order_history = <<>>

\* C4: a run whose text is rejected as empty, too short, too long or unsafe has
\* issued no gateway call when it returns
TextErrorCodes == {"empty_order", "order_too_short", "order_too_long", "unsafe_characters"}
C4_TextRejectedWithoutGatewayCall ==
    \A i \in DOMAIN tasks :
        (tasks[i].pc = "done" /\ tasks[i].result.errors \in {<<Err(0, c)>> : c \in TextErrorCodes})
            => tasks[i].calls = 0

C4_Witness ==
    \E i, j \in DOMAIN tasks :
        /\ tasks[i].pc = "done" /\ tasks[i].result.errors = <<Err(0, "unsafe_characters")>>
        /\ tasks[i].calls = 0
        /\ tasks[j].pc = "done" /\ tasks[j].result.errors = <<Err(0, "order_too_long")>>
        /\ tasks[j].calls = 0

\* C5: when the extraction call fails, process_order does not fail for that
\* reason: the fallback extractor's items are what the run goes on with, and the
\* run is rejected with no_items_extracted exactly when the fallback finds nothing
C5_FallbackOnExtractionFailure ==
    \A i \in DOMAIN tasks :
        (tasks[i].pc = "done" /\ tasks[i].ekind = "failed") =>
            LET found == fallback_extraction(CleanText(tasks[i].text),
                                             get_available_menus(tasks[i].category))
                r == tasks[i].result
            IN  /\ r.message # "processing_error"
                /\ (r.errors = <<Err(0, "no_items_extracted")>>) <=> (found = <<>>)
                /\ found # <<>> =>
                      IF validate_order_items(found) = <<>> THEN r.success
                      ELSE r.errors = validate_order_items(found)

C5_Witness ==
    \E i, j \in DOMAIN tasks :
        /\ tasks[i].pc = "done" /\ tasks[i].ekind = "failed" /\ tasks[i].result.success
        /\ tasks[j].pc = "done" /\ tasks[j].ekind = "failed"
        /\ tasks[j].result.errors = <<Err(0, "no_items_extracted")>>

\* C6: process_batch_orders over N texts returns N results, result i being the
\* outcome of text i in whatever order the gateway calls came back; a run that
\* raised becomes a failed result in its own place and every other run keeps its
\* outcome
OutcomeOfText(result, order_text) ==
    IF order_text = NotAString THEN result = Failed("batch_failure", <<Err(0, "TypeError")>>)
    ELSE IF ~validate_and_sanitize(order_text).success
    THEN result = Failed(validate_and_sanitize(order_text).message,
                         validate_and_sanitize(order_text).errors)
    ELSE result.message \in {"accepted", "no_items", "invalid_items", "processing_error"}
C6_BatchResultsPositional ==
    batch = "joined" =>
        /\ Len(results) = NumTasks
        /\ \A i \in 1..NumTasks :
              /\ OutcomeOfText(results[i], tasks[i].text)
              /\ tasks[i].pc = "done" => results[i] = tasks[i].result

C6_Witness ==
    /\ batch = "joined"
    /\ \E i, j \in DOMAIN results :
          /\ i < j
          /\ results[i].message = "batch_failure"
          /\ results[j].success

\* ------------------------------------------------------------------
\* src/routers/serving_router.py
\* ------------------------------------------------------------------
LOW == "low"
MEDIUM == "medium"
HIGH == "high"
SensitivityLevel == {LOW, MEDIUM, HIGH}
ModelType_CLOUD == "cloud"
ModelType_LOCAL == "local"
ModelType == {ModelType_CLOUD, ModelType_LOCAL}
Strategies == {"auto", "cloud_only", "local_only"}

\* ServingRouter.SENSITIVE_KEYWORDS (romanised, in source order; card_kr is the
\* Korean word, card the English one)
SENSITIVE_KEYWORDS ==
    <<"jeonhwabeonho", "juso", "imeil", "card_kr", "gyejwa", "jumindeungrok",
      "bimilbeonho", "gaeinjeongbo", "phone", "address", "email", "card", "password",
      "personal", "private", "confidential">>

\* the keywords of the list that occur in query.lower()
SensitiveHits(query) ==
    {i \in DOMAIN SENSITIVE_KEYWORDS : InLower(SENSITIVE_KEYWORDS[i], query)}

\* A variant of _analyze_sensitivity_fast for which one keyword is already high
analyze_sensitivity_fast_eager(query) ==
    IF Cardinality(SensitiveHits(query)) >= 1 THEN HIGH ELSE LOW

\* ServingRouter._analyze_sensitivity_fast
analyze_sensitivity_fast(query) ==
    IF Cardinality(SensitiveHits(query)) >= 2 THEN HIGH
    ELSE IF Cardinality(SensitiveHits(query)) = 1 THEN MEDIUM
    ELSE LOW

\* local_model_status["check_interval"], in minutes
check_interval == 5

\* ServingDecision (the model name follows from the target and is left out); a
\* reason is the sequence of its parts
ServingDecision(target, sensitivity, reason, fallback_available) ==
    [target |-> target, sensitivity |-> sensitivity, reason |-> reason,
     fallback_available |-> fallback_available]

\* ServingRouter._create_cloud_decision
create_cloud_decision(sensitivity, reason, fallback_available) ==
    ServingDecision(ModelType_CLOUD, sensitivity, reason, fallback_available)

\* A variant of the end of _create_local_decision without the fallback to cloud
local_decision_always_local(available, sensitivity, reason) ==
    ServingDecision(ModelType_LOCAL, sensitivity, reason, TRUE)

\* ServingRouter._create_local_decision once its availability check has answered
local_decision(available, sensitivity, reason) ==
    IF ~available
    THEN create_cloud_decision(sensitivity,
                               Append(reason, "fallback to cloud: local unavailable"), FALSE)
    ELSE ServingDecision(ModelType_LOCAL, sensitivity, reason, TRUE)

\* A variant of check_local_availability that never uses the cached value
check_local_availability_uncached(status, now, enabled) ==
    IF ~enabled
    THEN [kind |-> "probed", value |-> FALSE,
          status |-> [available |-> FALSE, checked |-> TRUE, last_checked |-> now]]
    ELSE [kind |-> "suspend", value |-> FALSE, status |-> status]

\* ServingRouter._check_local_availability read at time now:
\*   hit      the cached value is returned (last_checked set and younger than the interval)
\*   probed   the probe answered at once: check_local_model_availability returns
\*            False without a request when the local model is not enabled
\*   suspend  the probe request is sent and the call waits for it
check_local_availability(status, now, enabled) ==
    IF status.checked /\ now - status.last_checked < check_interval
    THEN [kind |-> "hit", value |-> status.available, status |-> status]
    ELSE IF ~enabled
    THEN [kind |-> "probed", value |-> FALSE,
          status |-> [available |-> FALSE, checked |-> TRUE, last_checked |-> now]]
    ELSE [kind |-> "suspend", value |-> FALSE, status |-> status]

\* _check_local_availability after the probe: the cache takes the answer and the
\* time read before the probe
probe_answered(status, t0, available) ==
    [available |-> available, checked |-> TRUE, last_checked |-> t0]

\* What a stretch of route() ends in: a returned decision (done) or a suspended
\* call. avail is what the last availability check of the call answered.
Finished(status, call, decision, avail) ==
    [done |-> TRUE, status |-> status, call |-> call, decision |-> decision, avail |-> avail]
Suspended(status, call) ==
    [done |-> FALSE, status |-> status, call |-> call,
     decision |-> create_cloud_decision(LOW, <<>>, FALSE), avail |-> "unchecked"]
Avail(value) == IF value THEN "available" ELSE "unavailable"

\* _create_local_decision(call.sensitivity, call.reason) from its first line
run_local_decision(status, call, now, enabled) ==
    LET c == check_local_availability(status, now, enabled)
    IN  IF c.kind = "suspend"
        THEN Suspended(status, [call EXCEPT !.pc = "probe_wait", !.cont = "local", !.t0 = now])
        ELSE Finished(c.status, call, local_decision(c.value, call.sensitivity, call.reason),
                      Avail(c.value))

\* _auto_route from the answer of its availability check to its return or to the
\* suspension inside _create_local_decision
after_auto_check(status, call, local_available, now, enabled) ==
    LET sensitivity == call.sensitivity
    IN  IF sensitivity = HIGH
        THEN IF local_available
             THEN run_local_decision(status,
                      [call EXCEPT !.reason = <<"High sensitivity, using local model for privacy">>],
                      now, enabled)
             ELSE Finished(status, call,
                      create_cloud_decision(sensitivity,
                          <<"High sensitivity but local unavailable, using cloud with caution">>,
                          FALSE),
                      Avail(local_available))
        ELSE IF sensitivity = LOW
        THEN Finished(status, call,
                 create_cloud_decision(sensitivity,
                     <<"Low sensitivity, using cloud for better performance">>, local_available),
                 Avail(local_available))
        ELSE IF local_available
             THEN run_local_decision(status,
                      [call EXCEPT !.reason = <<"Medium sensitivity, local model available">>],
                      now, enabled)
             ELSE Finished(status, call,
                      create_cloud_decision(sensitivity,
                          <<"Medium sensitivity, local unavailable, using cloud">>, FALSE),
                      Avail(local_available))

\* _auto_route from its first line; now1 and now2 are the clock readings of its
\* availability check and of the one inside _create_local_decision
auto_route(status, call, now1, now2, enabled) ==
    LET analysed == [call EXCEPT !.sensitivity = analyze_sensitivity_fast(call.query),
                                 !.auto = TRUE]
        c == check_local_availability(status, now1, enabled)
    IN  IF c.kind = "suspend"
        THEN Suspended(status, [analysed EXCEPT !.pc = "probe_wait", !.cont = "auto", !.t0 = now1])
        ELSE after_auto_check(c.status, analysed, c.value, now2, enabled)

\* route() after _ensure_llm_service
route_body(status, call, strategy, now1, now2, enabled) ==
    IF call.force_cloud
    THEN Finished(status, call, create_cloud_decision(LOW, <<"Forced cloud serving">>, FALSE),
                  "unchecked")
    ELSE IF call.force_local
    THEN run_local_decision(status,
             [call EXCEPT !.sensitivity = HIGH, !.reason = <<"Forced local serving">>],
             now1, enabled)
    ELSE IF strategy = "cloud_only"
    THEN Finished(status, call, create_cloud_decision(LOW, <<"Cloud-only strategy">>, FALSE),
                  "unchecked")
    ELSE IF strategy = "local_only"
    THEN run_local_decision(status,
             [call EXCEPT !.sensitivity = MEDIUM, !.reason = <<"Local-only strategy">>],
             now1, enabled)
    ELSE auto_route(status, call, now1, now2, enabled)

\* ------------------------------------------------------------------
\* SpecServing: route() calls on one ServingRouter, possibly overlapping (route_batch
\* gathers them). A call is suspended only inside a probe of the local backend:
\* the one get_llm_service makes when it creates the service (init_wait) and the
\* one of _check_local_availability (probe_wait). rclock is the wall clock in minutes.
\*   routes      the calls in flight, by call number
\*   routeStats  started: calls started; completed: calls returned since the last
\*               clear_history; last: the last returned call with its decision
\* ------------------------------------------------------------------
Queries ==
    { <<"menu", " ", "chucheon">>,
      <<"Phone", " ", "phone">>,
      <<"postcard", " ", "ADDRESS">> }

NewCall(query, force_local, force_cloud, now) ==
    [query |-> query, force_local |-> force_local, force_cloud |-> force_cloud,
     pc |-> "running", cont |-> "none", sensitivity |-> LOW, reason |-> <<>>,
     auto |-> FALSE, t0 |-> now]

NoOutcome ==
    [returned |-> FALSE, query |-> <<>>, force_local |-> FALSE, force_cloud |-> FALSE,
     auto |-> FALSE, decision |-> create_cloud_decision(LOW, <<>>, FALSE),
     avail |-> "unchecked"]

Outcome(out) ==
    [returned |-> TRUE, query |-> out.call.query, force_local |-> out.call.force_local,
     force_cloud |-> out.call.force_cloud, auto |-> out.call.auto,
     decision |-> out.decision, avail |-> out.avail]

\* The effect of a stretch of call id on the router: a returned decision is
\* appended to serving_history on the _auto_route path only (line 185)
Settle(out, id, started) ==
    /\ local_model_status' = out.status
    /\ IF out.done
       THEN /\ serving_history' = IF out.call.auto THEN Append(serving_history, out.decision)
                                  ELSE serving_history
            /\ routes' = RemoveKey(routes, id)
            /\ routeStats' = [started |-> started, completed |-> routeStats.completed + 1,
                              last |-> Outcome(out)]
       ELSE /\ serving_history' = serving_history
            /\ routes' = (id :> out.call) @@ routes
            /\ routeStats' = [routeStats EXCEPT !.started = started]

\* The probe has a 5 s timeout: while one is in flight the minute can change at
\* most once
TimeMayPass(dt) ==
    /\ rclock + dt <= MaxTime
    /\ dt = 0 \/ \A id \in DOMAIN routes : rclock + dt - routes[id].t0 <= 1

\* route(query, force_local, force_cloud) up to its first suspension or its return;
\* dt is the time that passes between its two clock readings
RouteStart(query, force_local, force_cloud, dt) ==
    /\ routeStats.started < MaxRoutes
    /\ TimeMayPass(dt)
    /\ LET id == routeStats.started + 1
           call == NewCall(query, force_local, force_cloud, rclock)
       IN  IF llm_service.singleton \/ ~enable_local_model
           THEN /\ llm_service' = [singleton |-> TRUE, router |-> TRUE]
                /\ rclock' = rclock + dt
                /\ Settle(route_body(local_model_status, call, model_strategy, rclock,
                                     rclock + dt, enable_local_model), id, id)
           ELSE /\ dt = 0
                /\ llm_service' = [llm_service EXCEPT !.singleton = TRUE]
                /\ routes' = (id :> [call EXCEPT !.pc = "init_wait"]) @@ routes
                /\ routeStats' = [routeStats EXCEPT !.started = id]
                /\ UNCHANGED <<rclock, local_model_status, serving_history>>
    /\ UNCHANGED <<modelVars, callVars, model_strategy, enable_local_model, storeVars, agentVars>>

\* the probe made by get_llm_service answers; route() goes on
InitReturn(id, dt) ==
    /\ id \in DOMAIN routes
    /\ routes[id].pc = "init_wait"
    /\ TimeMayPass(dt)
    /\ llm_service' = [llm_service EXCEPT !.router = TRUE]
    /\ rclock' = rclock + dt
    /\ Settle(route_body(local_model_status, [routes[id] EXCEPT !.pc = "running"],
                         model_strategy, rclock, rclock + dt, enable_local_model),
              id, routeStats.started)
    /\ UNCHANGED <<modelVars, callVars, model_strategy, enable_local_model, storeVars, agentVars>>

\* the probe of _check_local_availability answers; the call goes on where it waited
ProbeReturn(id, available) ==
    /\ id \in DOMAIN routes
    /\ routes[id].pc = "probe_wait"
    /\ LET call == [routes[id] EXCEPT !.pc = "running"]
           status == probe_answered(local_model_status, call.t0, available)
       IN  Settle(IF call.cont = "auto"
                  THEN after_auto_check(status, call, available, rclock, enable_local_model)
                  ELSE Finished(status, call,
                                local_decision(available, call.sensitivity, call.reason),
                                Avail(available)),
                  id, routeStats.started)
    /\ UNCHANGED <<modelVars, callVars, rclock, llm_service, model_strategy, enable_local_model, storeVars, agentVars>>

\* ServingRouter.clear_history
ClearHistory ==
    /\ serving_history' = <<>>
    /\ routeStats' = [routeStats EXCEPT !.completed = 0]
    /\ UNCHANGED <<modelVars, callVars, routes, rclock, llm_service, local_model_status, model_strategy,
                   enable_local_model, storeVars, agentVars>>

\* a minute passes
ServingTick ==
    /\ TimeMayPass(1)
    /\ rclock' = rclock + 1
    /\ UNCHANGED <<modelVars, callVars, routes, routeStats, serving_history, llm_service, local_model_status,
                   model_strategy, enable_local_model, storeVars, agentVars>>

InitServing ==
    /\ StoreInit
    /\ AgentIdle
    /\ ModelIdle
    /\ CallIdle
    /\ model_strategy \in Strategies
    /\ enable_local_model \in BOOLEAN
    /\ llm_service = [singleton |-> FALSE, router |-> FALSE]
    /\ local_model_status = [available |-> FALSE, checked |-> FALSE, last_checked |-> 0]
    /\ serving_history = <<>>
    /\ rclock = 0
    /\ routes = <<>>
    /\ routeStats = [started |-> 0, completed |-> 0, last |-> NoOutcome]

NextServing ==
    \/ \E query \in Queries, force_local \in BOOLEAN, force_cloud \in BOOLEAN, dt \in {0, 1} :
          RouteStart(query, force_local, force_cloud, dt)
    \/ \E id \in DOMAIN routes, dt \in {0, 1} : InitReturn(id, dt)
    \/ \E id \in DOMAIN routes, available \in BOOLEAN : ProbeReturn(id, available)
    \/ ClearHistory
    \/ ServingTick

SpecServing == InitServing /\ [][NextServing]_vars

\* ------------------------------------------------------------------
\* Properties of the serving router (SpecServing)
\* ------------------------------------------------------------------
LastRoute == routeStats.last

\* the sensitivity the decision table assigns to a number of distinct keywords hit
LevelOfHits(hits) == IF hits >= 2 THEN HIGH ELSE IF hits = 1 THEN MEDIUM ELSE LOW

\* C8: under the auto strategy with no forced flag the returned decision depends
\* on the number of distinct sensitive keywords hit and on local availability
\* (the answer of the call's last availability check) only: two or more hits is
\* high, one is medium, none is low; the target is local exactly when the
\* sensitivity is medium or high and local is available, cloud otherwise
C8_AutoDecisionTable ==
    (LastRoute.returned /\ model_strategy = "auto"
        /\ ~LastRoute.force_local /\ ~LastRoute.force_cloud) =>
        LET level == LevelOfHits(Cardinality(SensitiveHits(LastRoute.query)))
        IN  /\ LastRoute.decision.sensitivity = level
            /\ LastRoute.decision.target \in ModelType
            /\ LastRoute.decision.target = ModelType_LOCAL <=>
                  (level \in {MEDIUM, HIGH} /\ LastRoute.avail = "available")

C8_Witness ==
    /\ LastRoute.returned /\ model_strategy = "auto"
    /\ ~LastRoute.force_local /\ ~LastRoute.force_cloud
    /\ Cardinality(SensitiveHits(LastRoute.query)) = 2
    /\ LastRoute.avail = "available"
    /\ LastRoute.decision.target = ModelType_LOCAL
    /\ LastRoute.decision.sensitivity = HIGH

\* C9: every decision route() returns is appended to the serving history: the
\* history is as long as the number of route calls returned since the last
\* clear_history
C9_HistoryCountsRoutes == Len(serving_history) = routeStats.completed

ComplexityLevel == {LOW, MEDIUM, HIGH}

\* settings.gpt_nano_model, gpt_mini_model, gpt_standard_model, ollama_model
gpt_nano_model == "gpt-5-nano"
gpt_mini_model == "gpt-5-mini"
gpt_standard_model == "gpt-5"
ollama_model == "exaone3.5:7.8b"

\* A (model type, model name) pair
ModelChoice(model_type, model_name) == [model_type |-> model_type, model_name |-> model_name]

\* ModelRouter._select_cloud_model
select_cloud_model(complexity) ==
    ModelChoice(ModelType_CLOUD,
                CASE complexity = LOW -> gpt_nano_model
                  [] complexity = MEDIUM -> gpt_mini_model
                  [] complexity = HIGH -> gpt_standard_model
                  [] OTHER -> gpt_mini_model)

\* A variant of _select_local_model that falls back to the cloud tier of the complexity
select_local_model_same_tier(complexity, available) ==
    IF available THEN ModelChoice(ModelType_LOCAL, ollama_model)
    ELSE select_cloud_model(complexity)

\* ModelRouter._select_local_model, given the answer of its availability probe
select_local_model(complexity, available) ==
    IF available THEN ModelChoice(ModelType_LOCAL, ollama_model)
    ELSE select_cloud_model(LOW)

\* ModelRouter._select_auto_model, given the answer the probe gives if it is made
select_auto_model(complexity, available) ==
    IF complexity = LOW /\ available THEN ModelChoice(ModelType_LOCAL, ollama_model)
    ELSE select_cloud_model(complexity)

\* ModelRouter._select_model_by_strategy; probes(strategy, complexity) tells
\* whether the availability probe is made at all
probes(strategy, complexity) ==
    strategy = "local_only" \/ (strategy # "cloud_only" /\ complexity = LOW)
select_model_by_strategy(strategy, complexity, available) ==
    IF strategy = "cloud_only" THEN select_cloud_model(complexity)
    ELSE IF strategy = "local_only" THEN select_local_model(complexity, available)
    ELSE select_auto_model(complexity, available)

\* ModelSelection (estimated_cost is left out)
ModelSelection(choice, complexity, reason) ==
    [model_type |-> choice.model_type, model_name |-> choice.model_name,
     complexity |-> complexity, reason |-> reason]

\* LLMService.analyze_complexity: the level read from the gateway's answer
\* (strip, lower; anything else is medium)
complexity_of_answer(text) ==
    LET answer == Strip(text)
    IN  IF Len(answer) = 1 /\ Lower(answer[1]) \in ComplexityLevel THEN Lower(answer[1])
        ELSE MEDIUM

\* route(): complexity and reason once the analysis call has come back
analysed(response) ==
    IF response.ok
    THEN [complexity |-> complexity_of_answer(response.text), reason |-> "LLM-analyzed complexity"]
    ELSE [complexity |-> MEDIUM, reason |-> "Fallback to medium complexity"]

\* ------------------------------------------------------------------
\* SpecModel: route() calls on one ModelRouter, possibly overlapping. A call is
\* suspended in the probe get_llm_service makes when it creates the service
\* (init_wait), in the gateway's complexity analysis (analyze_wait) and in the
\* availability probe of _select_local_model / _select_auto_model (probe_wait).
\* routes, routeStats and llm_service are used as in SpecServing.
\* ------------------------------------------------------------------
ModelQueries == { <<"menu", " ", "chucheon">>, <<"americano">> }

AnalysisResponses ==
    { GatewayFailure, GatewayAnswer(<<"low">>), GatewayAnswer(<<" ", "HIGH">>),
      GatewayAnswer(<<"high", ".">>) }

NewModelCall(query, force_complexity) ==
    [query |-> query, force_complexity |-> force_complexity, pc |-> "running",
     complexity |-> NoValue, reason |-> "none"]

NoSelection ==
    [returned |-> FALSE, avail |-> "unchecked",
     selection |-> ModelSelection(select_cloud_model(MEDIUM), MEDIUM, "none")]

\* route() from the model selection on: the probe is awaited only when the local
\* model is enabled (check_local_model_availability returns False at once otherwise)
from_select(mcall, strategy, enabled) ==
    IF probes(strategy, mcall.complexity) /\ enabled
    THEN [done |-> FALSE, call |-> [mcall EXCEPT !.pc = "probe_wait"], outcome |-> NoSelection]
    ELSE [done |-> TRUE, call |-> mcall,
          outcome |-> [returned |-> TRUE,
                       avail |-> IF probes(strategy, mcall.complexity) THEN "unavailable"
                                 ELSE "unchecked",
                       selection |-> ModelSelection(
                           select_model_by_strategy(strategy, mcall.complexity, FALSE),
                           mcall.complexity, mcall.reason)]]

\* route() after _ensure_llm_service
from_ensure(mcall, strategy, enabled) ==
    IF mcall.force_complexity # NoValue
    THEN from_select([mcall EXCEPT !.complexity = mcall.force_complexity,
                                   !.reason = "Forced complexity level"], strategy, enabled)
    ELSE [done |-> FALSE, call |-> [mcall EXCEPT !.pc = "analyze_wait"], outcome |-> NoSelection]

\* A variant of ModelSettle that does not record a selection made with the
\* fallback complexity
ModelSettle_unrecorded_fallback(out, id, started) ==
    IF out.done
    THEN /\ selection_history' =
                IF out.outcome.selection.reason = "Fallback to medium complexity"
                THEN selection_history
                ELSE Append(selection_history, out.outcome.selection)
         /\ routes' = RemoveKey(routes, id)
         /\ routeStats' = [started |-> started, completed |-> routeStats.completed + 1,
                           last |-> out.outcome]
    ELSE /\ selection_history' = selection_history
         /\ routes' = (id :> out.call) @@ routes
         /\ routeStats' = [routeStats EXCEPT !.started = started]

\* the effect of a stretch of call id: a returned selection is appended to
\* selection_history
ModelSettle(out, id, started) ==
    IF out.done
    THEN /\ selection_history' = Append(selection_history, out.outcome.selection)
         /\ routes' = RemoveKey(routes, id)
         /\ routeStats' = [started |-> started, completed |-> routeStats.completed + 1,
                           last |-> out.outcome]
    ELSE /\ selection_history' = selection_history
         /\ routes' = (id :> out.call) @@ routes
         /\ routeStats' = [routeStats EXCEPT !.started = started]

ModelRouteStart(query, force_complexity) ==
    /\ routeStats.started < MaxRoutes
    /\ LET id == routeStats.started + 1
           mcall == NewModelCall(query, force_complexity)
       IN  IF llm_service.singleton \/ ~enable_local_model
           THEN /\ llm_service' = [singleton |-> TRUE, router |-> TRUE]
                /\ ModelSettle(from_ensure(mcall, model_strategy, enable_local_model), id, id)
           ELSE /\ llm_service' = [llm_service EXCEPT !.singleton = TRUE]
                /\ ModelSettle([done |-> FALSE, call |-> [mcall EXCEPT !.pc = "init_wait"],
                                outcome |-> NoSelection], id, id)
    /\ UNCHANGED <<callVars, model_strategy, enable_local_model, local_model_status,
                   serving_history, rclock, storeVars, agentVars>>

ModelInitReturn(id) ==
    /\ id \in DOMAIN routes
    /\ routes[id].pc = "init_wait"
    /\ llm_service' = [llm_service EXCEPT !.router = TRUE]
    /\ ModelSettle(from_ensure([routes[id] EXCEPT !.pc = "running"], model_strategy,
                               enable_local_model), id, routeStats.started)
    /\ UNCHANGED <<callVars, model_strategy, enable_local_model, local_model_status,
                   serving_history, rclock, storeVars, agentVars>>

\* the complexity analysis of call id comes back
AnalyzeReturn(id, response) ==
    /\ id \in DOMAIN routes
    /\ routes[id].pc = "analyze_wait"
    /\ ModelSettle(from_select([routes[id] EXCEPT !.pc = "running",
                                                  !.complexity = analysed(response).complexity,
                                                  !.reason = analysed(response).reason],
                               model_strategy, enable_local_model),
                   id, routeStats.started)
    /\ UNCHANGED <<callVars, llm_service, model_strategy, enable_local_model,
                   local_model_status, serving_history, rclock, storeVars, agentVars>>

\* the availability probe of call id answers
ModelProbeReturn(id, available) ==
    /\ id \in DOMAIN routes
    /\ routes[id].pc = "probe_wait"
    /\ ModelSettle([done |-> TRUE, call |-> routes[id],
                    outcome |-> [returned |-> TRUE, avail |-> Avail(available),
                                 selection |-> ModelSelection(
                                     select_model_by_strategy(model_strategy,
                                                              routes[id].complexity, available),
                                     routes[id].complexity, routes[id].reason)]],
                   id, routeStats.started)
    /\ UNCHANGED <<callVars, llm_service, model_strategy, enable_local_model,
                   local_model_status, serving_history, rclock, storeVars, agentVars>>

InitModel ==
    /\ StoreInit
    /\ AgentIdle
    /\ CallIdle
    /\ model_strategy \in Strategies
    /\ enable_local_model \in BOOLEAN
    /\ llm_service = [singleton |-> FALSE, router |-> FALSE]
    /\ local_model_status = [available |-> FALSE, checked |-> FALSE, last_checked |-> 0]
    /\ serving_history = <<>>
    /\ rclock = 0
    /\ routes = <<>>
    /\ routeStats = [started |-> 0, completed |-> 0, last |-> NoSelection]
    /\ selection_history = <<>>

NextModel ==
    \/ \E query \in ModelQueries, force_complexity \in ComplexityLevel \cup {NoValue} :
          ModelRouteStart(query, force_complexity)
    \/ \E id \in DOMAIN routes : ModelInitReturn(id)
    \/ \E id \in DOMAIN routes, response \in AnalysisResponses : AnalyzeReturn(id, response)
    \/ \E id \in DOMAIN routes, available \in BOOLEAN : ModelProbeReturn(id, available)

SpecModel == InitModel /\ [][NextModel]_vars

\* the cloud tiers: cheap, mid, premium
CloudTier(complexity) ==
    CASE complexity = LOW -> "gpt-5-nano"
      [] complexity = MEDIUM -> "gpt-5-mini"
      [] complexity = HIGH -> "gpt-5"

\* C11: the backend and model of a returned selection follow from the strategy,
\* the complexity and the probe's answer: cloud_only gives the cloud tier of the
\* complexity; local_only the local model if available, else the cheapest cloud
\* tier; auto the local model for low complexity when local is available, else
\* the cloud tier of the complexity
C11_SelectionTable ==
    routeStats.last.returned =>
        LET sel == routeStats.last.selection
            available == routeStats.last.avail = "available"
            local == sel.model_type = ModelType_LOCAL /\ sel.model_name = "exaone3.5:7.8b"
            cloud(level) == sel.model_type = ModelType_CLOUD /\ sel.model_name = CloudTier(level)
        IN  /\ sel.complexity \in ComplexityLevel
            /\ sel = selection_history[Len(selection_history)]
            /\ CASE model_strategy = "cloud_only" -> cloud(sel.complexity)
                 [] model_strategy = "local_only" -> IF available THEN local ELSE cloud(LOW)
                 [] model_strategy = "auto" ->
                        IF sel.complexity = LOW /\ available THEN local
                        ELSE cloud(sel.complexity)

C11_Witness ==
    /\ routeStats.last.returned
    /\ model_strategy = "auto"
    /\ routeStats.last.selection.complexity = LOW
    /\ routeStats.last.avail = "available"
    /\ routeStats.last.selection.model_type = ModelType_LOCAL
    /\ \E i \in DOMAIN selection_history :
          /\ selection_history[i].complexity = HIGH
          /\ selection_history[i].model_name = "gpt-5"

\* ------------------------------------------------------------------
\* CategoryRouter.route and route_batch on their own: one route_batch call over
\* NumTasks texts. A task is one route coroutine; it is suspended only inside the
\* classification call.
\*   pc        start, classify_wait, done (returned), raised
\*   calls     classification calls the run has issued
\*   answer    what the classification call came back with (NoAnswer before)
\*   decision  the RouteDecision returned (NoDecision before)
\* ------------------------------------------------------------------
NoAnswer == [ok |-> FALSE, text |-> <<"\\pending">>]

\* CategoryRouter.route from its entry to its first suspension or its return:
\* order_text[:50] raises on a value that is not a string; the keyword decision
\* is returned when its confidence is above 0.8; otherwise the LLM service is
\* ensured and the classification call is issued
route_start(order_text) ==
    IF order_text = NotAString
    THEN [pc |-> "raised", text |-> order_text, calls |-> 0, answer |-> NoAnswer,
          decision |-> NoDecision]
    ELSE LET normalized_text == normalize_whitespace(order_text)
         IN  IF FastPath(normalized_text)
             THEN [pc |-> "done", text |-> order_text, calls |-> 0, answer |-> NoAnswer,
                   decision |-> classify_by_keywords(normalized_text)]
             ELSE [pc |-> "classify_wait", text |-> order_text, calls |-> 1,
                   answer |-> NoAnswer, decision |-> NoDecision]

\* CategoryRouter.route_batch after gather: an exception becomes the default
\* decision in its place, every other decision is kept
route_batch_decisions(gathered) ==
    [i \in DOMAIN gathered |->
        IF gathered[i].pc = "raised"
        THEN RouteDecision(BEVERAGE, 1, 2, "Error fallback")
        ELSE gathered[i].decision]

\* texts: one meal keyword; no keyword; one dessert and one beverage keyword
\* (share 1/2); two dessert and one beverage (2/3); four dessert and one beverage
\* (4/5); not a string
CategoryTexts ==
    { <<"pizza">>,
      <<" ", "annyeong", " ", " ", "juseyo">>,
      <<"cake", " ", "americano">>,
      <<"cake", " ", "scone", " ", "americano">>,
      <<"cake", "cookie", "waffle", "tart", " ", "latte">>,
      NotAString }

CategoryResponses ==
    { GatewayFailure, GatewayAnswer(<<"eumryo">>), GatewayAnswer(<<" ", "Meal", ".">>),
      GatewayAnswer(<<"dessert_kr", " ", "siksa">>), GatewayAnswer(<<"molla">>) }

\* route_batch(order_texts): the coroutines are created
RouteBatchStart(order_texts) ==
    /\ batch = "idle"
    /\ batch' = "running"
    /\ tasks' = [i \in 1..NumTasks |->
                    [pc |-> "start", text |-> order_texts[i], calls |-> 0,
                     answer |-> NoAnswer, decision |-> NoDecision]]
    /\ UNCHANGED <<modelVars, callVars, results, storeVars, servingVars>>

\* gather starts the coroutines in list order; each runs to its first suspension
RouteTaskStart(i) ==
    /\ batch = "running"
    /\ tasks[i].pc = "start"
    /\ \A j \in 1..(i - 1) : tasks[j].pc # "start"
    /\ tasks' = [tasks EXCEPT ![i] = route_start(tasks[i].text)]
    /\ UNCHANGED <<modelVars, callVars, batch, results, storeVars, servingVars>>

\* the classification call of task i comes back and route returns
RouteClassifyReturn(i, response) ==
    /\ batch = "running"
    /\ tasks[i].pc = "classify_wait"
    /\ tasks' = [tasks EXCEPT ![i].pc = "done", ![i].answer = response,
                              ![i].decision = decision_after_classification(response)]
    /\ UNCHANGED <<modelVars, callVars, batch, results, storeVars, servingVars>>

\* gather returns when every coroutine has returned or raised
RouteBatchJoin ==
    /\ batch = "running"
    /\ \A i \in DOMAIN tasks : tasks[i].pc \in {"done", "raised"}
    /\ results' = route_batch_decisions(tasks)
    /\ batch' = "joined"
    /\ UNCHANGED <<modelVars, callVars, tasks, storeVars, servingVars>>

InitCategory == StoreInit /\ AgentIdle /\ ServingIdle /\ ModelIdle /\ CallIdle

NextCategory ==
    \/ \E order_texts \in [1..NumTasks -> CategoryTexts] : RouteBatchStart(order_texts)
    \/ \E i \in DOMAIN tasks : RouteTaskStart(i)
    \/ \E i \in DOMAIN tasks, response \in CategoryResponses : RouteClassifyReturn(i, response)
    \/ RouteBatchJoin

SpecCategory == InitCategory /\ [][NextCategory]_vars

\* ------------------------------------------------------------------
\* Properties of the category router (SpecCategory)
\* ------------------------------------------------------------------
\* the largest score of a category, and whether its share of all hits is above 0.8
TopScore(text) ==
    CHOOSE n \in 0..13 :
        /\ \E c \in {BEVERAGE, DESSERT, MEAL} : KeywordScore(c, text) = n
        /\ \A c \in {BEVERAGE, DESSERT, MEAL} : KeywordScore(c, text) <= n
ShareAboveFourFifths(text) == TotalScore(text) > 0 /\ 5 * TopScore(text) > 4 * TotalScore(text)

\* route has run on task i past its start and did not raise on its argument
Routed(i) == tasks[i].pc \in {"classify_wait", "done"}

\* C12: route returns the keyword decision (the top category, confidence its
\* share of the hits, at least 0.6) without a gateway call whenever the top
\* category's share of all keyword hits is above 0.8, and issues the gateway's
\* classification call in every other case (no hits, or a share of 0.8 and below)
C12_FastPathAboveFourFifths ==
    \A i \in DOMAIN tasks :
        Routed(i) =>
            IF ShareAboveFourFifths(tasks[i].text)
            THEN /\ tasks[i].pc = "done"
                 /\ tasks[i].calls = 0
                 /\ KeywordScore(tasks[i].decision.category, tasks[i].text) = TopScore(tasks[i].text)
                 /\ tasks[i].decision.num = TopScore(tasks[i].text)
                 /\ tasks[i].decision.den = TotalScore(tasks[i].text)
                 /\ 5 * tasks[i].decision.num >= 3 * tasks[i].decision.den
            ELSE /\ tasks[i].calls = 1
                 /\ tasks[i].pc = "done" => tasks[i].answer # NoAnswer

\* the pizza text has returned Meal on the fast path while a text whose share is
\* exactly 4/5 waits for the gateway
C12_Witness ==
    \E i, j \in DOMAIN tasks :
        /\ tasks[i].text = <<"pizza">> /\ tasks[i].pc = "done" /\ tasks[i].calls = 0
        /\ tasks[i].decision.category = MEAL
        /\ TotalScore(tasks[j].text) = 5 /\ TopScore(tasks[j].text) = 4
        /\ tasks[j].pc = "classify_wait"

\* C13: a failed classification call makes route return Beverage with confidence
\* 0.5 (it does not raise), whatever the keywords said; route_batch returns one
\* decision per text in input order, Beverage with confidence 0.5 in the place of
\* a text whose route raised and every other decision as route returned it
C13_FallbackInsteadOfRaising ==
    /\ \A i \in DOMAIN tasks :
          tasks[i].calls = 1 /\ tasks[i].pc # "classify_wait" =>
              /\ tasks[i].pc = "done"
              /\ tasks[i].answer = GatewayFailure =>
                    /\ tasks[i].decision.category = BEVERAGE
                    /\ tasks[i].decision.num = 1 /\ tasks[i].decision.den = 2
    /\ batch = "joined" =>
          /\ Len(results) = NumTasks
          /\ \A i \in DOMAIN tasks :
                IF tasks[i].pc = "raised"
                THEN /\ results[i].category = BEVERAGE
                     /\ results[i].num = 1 /\ results[i].den = 2
                ELSE results[i] = tasks[i].decision

\* a joined batch in which the classification failed for a text whose keywords
\* pointed to Dessert, and the route of another text raised
C13_Witness ==
    /\ batch = "joined"
    /\ \E i, j \in DOMAIN tasks :
          /\ tasks[i].answer = GatewayFailure /\ tasks[i].pc = "done"
          /\ classify_by_keywords(tasks[i].text).category = DESSERT
          /\ results[i].category = BEVERAGE
          /\ tasks[j].pc = "raised"
          /\ results[j].category = BEVERAGE

\* the categories whose Korean or English label occurs in an answer
LabelsIn(answer) ==
    {CategoryLabels[k][2] : k \in {k \in DOMAIN CategoryLabels : InLower(CategoryLabels[k][1], answer)}}

\* C14: when route falls through to the gateway and the call succeeds, the
\* decision has confidence exactly 0.9 and its category is one whose Korean or
\* English label occurs in the answer, Beverage when no label occurs
C14_GatewayDecision ==
    \A i \in DOMAIN tasks :
        tasks[i].pc = "done" /\ tasks[i].calls = 1 /\ tasks[i].answer.ok =>
            /\ tasks[i].decision.num = 9 /\ tasks[i].decision.den = 10
            /\ IF LabelsIn(tasks[i].answer.text) = {}
               THEN tasks[i].decision.category = BEVERAGE
               ELSE tasks[i].decision.category \in LabelsIn(tasks[i].answer.text)

\* a text without keywords answered with the Korean label of Beverage, and a text
\* answered with the English label of Meal
C14_Witness ==
    \E i, j \in DOMAIN tasks :
        /\ TotalScore(tasks[i].text) = 0 /\ tasks[i].pc = "done"
        /\ tasks[i].answer = GatewayAnswer(<<"eumryo">>)
        /\ tasks[i].decision = RouteDecision(BEVERAGE, 9, 10, "LLM classification")
        /\ tasks[j].pc = "done" /\ tasks[j].answer = GatewayAnswer(<<" ", "Meal", ".">>)
        /\ tasks[j].decision.category = MEAL
\* ------------------------------------------------------------------
\* Item validation: OrderValidator.validate_order_items called on an item list,
\* and process_order from the return of its extraction call (steps 3 to 6) on a
\* routed order. lastCall records the call: its arguments, the store it found
\* and what it returned.
\* ------------------------------------------------------------------
\* an item dict with the given keys only
PartialItem(keys, menu, quantity) ==
    [keys |-> keys, menu |-> menu, quantity |-> quantity, size |-> NoValue,
     temperature |-> NoValue, options |-> <<>>]

ValidationItems ==
    { ItemData("americano", 1, NoValue, NoValue),
      ItemData("americano", 150, NoValue, NoValue),
      ItemData("americano", 0, "Tall", "Hot"),
      ItemData("americano", 99, "venti_kr", "ice_kr"),
      ItemData("orange_juice", 2, "Venti", NoValue),
      ItemData("iced_tea", 1, "Grande", "Hot"),
      ItemData("cake", 1, "Large", NoValue),
      ItemData("unicorn_latte", 1, NoValue, NoValue),
      ItemData("bagel", 1, NoValue, "warm"),
      ItemData("bagel", 2, NoValue, NoValue),
      PartialItem({"quantity"}, NoValue, 1),
      PartialItem({"menu"}, "cake", 0) }

ValidationItemLists ==
    {<<>>} \cup {<<a>> : a \in ValidationItems}
           \cup {<<a, b>> : a \in ValidationItems, b \in ValidationItems}

\* the item lists an extraction call hands to process_order
ProcessItemLists ==
    ItemLists \cup { <<ItemData("americano", 150, NoValue, NoValue)>>,
                     <<ItemData("americano", 1, NoValue, NoValue),
                       ItemData("orange_juice", 2, "Venti", NoValue),
                       ItemData("iced_tea", 1, "Grande", "Hot")>> }

\* OrderValidator.validate_order_items(items)
CallValidateOrderItems(items) ==
    /\ lastCall' = [fn |-> "validate_order_items", items |-> items, before |-> TheStore,
                    errors |-> validate_order_items(items), success |-> FALSE]
    /\ UNCHANGED <<theOrder, modelVars, storeVars, agentVars, servingVars>>

\* process_order on a text routed to category, from the return of the extraction
\* call with the parsed list items to its return
ProcessItems(category, items, uuid) ==
    /\ nextOid < MaxOrders
    /\ LET out == after_extraction(TheStore, <<"bagel", " ", "han", " ", "gae">>, category,
                                   ExtractionResponse("json", items), nextOid + 1,
                                   generate_order_id(clock, uuid), tax_rate)
       IN  /\ lastCall' = [fn |-> "process_order",
                           items |-> validate_category_items(category, items),
                           before |-> TheStore, errors |-> out.result.errors,
                           success |-> out.result.success]
           /\ orders' = out.store.orders
           /\ order_history' = out.store.order_history
           /\ nextOid' = IF out.result.success THEN nextOid + 1 ELSE nextOid
    /\ UNCHANGED <<theOrder, modelVars, clock, tax_rate, agentVars, servingVars>>

InitItems == StoreInit /\ AgentIdle /\ ServingIdle /\ ModelIdle /\ CallIdle

NextItems ==
    \/ \E items \in ValidationItemLists : CallValidateOrderItems(items)
    \/ \E category \in MenuCategory, items \in ProcessItemLists, uuid \in UuidPrefixes :
          ProcessItems(category, items, uuid)

SpecItems == InitItems /\ [][NextItems]_vars

\* ------------------------------------------------------------------
\* Properties of item validation (SpecItems)
\* ------------------------------------------------------------------
\* an optional field is absent or null
Unset(item, key) == key \notin item.keys \/ item[key] = NoValue

\* the item passes every check the validator makes
ItemPasses(item) ==
    /\ "menu" \in item.keys /\ "quantity" \in item.keys
    /\ item.menu \in DOMAIN MENU_DATABASE /\ MENU_DATABASE[item.menu].available
    /\ item.quantity >= 1 /\ item.quantity <= 99
    /\ \/ Unset(item, "size")
       \/ /\ size_map(item.size) # NoValue
          /\ size_map(item.size) \in MENU_DATABASE[item.menu].size_options
    /\ \/ Unset(item, "temperature")
       \/ /\ temp_map(item.temperature) # NoValue
          /\ temp_map(item.temperature) \in MENU_DATABASE[item.menu].temperature_options

FailingPositions(items) == {i \in DOMAIN items : ~ItemPasses(items[i])}

\* the errors are one per failing item, tagged with its position, in list order
OnePerFailingItem(items, errors) ==
    /\ Len(errors) = Cardinality(FailingPositions(items))
    /\ \A k \in DOMAIN errors : errors[k].idx \in FailingPositions(items)
    /\ \A k \in DOMAIN errors : \A l \in DOMAIN errors : k < l => errors[k].idx < errors[l].idx

\* C15: validate_order_items is all-or-nothing. It reports valid only if every
\* item has menu and quantity, names an existing available menu, has a quantity
\* in [1, 99] and a size and temperature that, when given, are recognised and
\* supported by the menu; if any item fails the result is invalid with one error
\* per failing item tagged with the item's 1-based position, and process_order
\* creates no order
C15_AllOrNothing ==
    /\ lastCall.fn = "validate_order_items" =>
          /\ lastCall.errors = <<>> =>
                lastCall.items # <<>> /\ FailingPositions(lastCall.items) = {}
          /\ FailingPositions(lastCall.items) # {} =>
                lastCall.errors # <<>> /\ OnePerFailingItem(lastCall.items, lastCall.errors)
          /\ lastCall.items # <<>> /\ FailingPositions(lastCall.items) = {} =>
                lastCall.errors = <<>>
    /\ lastCall.fn = "process_order" /\ FailingPositions(lastCall.items) # {} =>
          /\ ~lastCall.success
          /\ OnePerFailingItem(lastCall.items, lastCall.errors)
          /\ TheStore = lastCall.before

\* process_order has rejected the single item of quantity 150 for its quantity
\* and left the store, which holds an earlier order, as it was
C15_Witness ==
    /\ lastCall.fn = "process_order"
    /\ lastCall.items = <<ItemData("americano", 150, NoValue, NoValue)>>
    /\ lastCall.errors = <<Err(1, "quantity_too_large")>>
    /\ ~lastCall.success
    /\ DOMAIN orders # {}
    /\ TheStore = lastCall.before
\* ------------------------------------------------------------------
\* One Order object (src/services/order_service.py, class Order) called directly:
\* constructed from a list of OrderItems, then add_item and remove_item.
\* datetime.now() is the clock; settings.tax_rate is tax_rate, in percent.
\* int(total_amount * tax_rate) is the floor of the product for the totals an
\* order can have (non-negative; the float product of an integer with 0.1 or 0.2
\* is never below the exact product).
\* ------------------------------------------------------------------
\* OrderItem(menu_name, quantity, category, base_price, size, options) after
\* __post_init__
NewOrderItem(menu_name, quantity, category, base_price, size, options) ==
    [menu_name |-> menu_name, quantity |-> quantity, category |-> category,
     base_price |-> base_price, size |-> size, options |-> options,
     subtotal |-> calculate_subtotal(menu_name, quantity, base_price, size, options)]

\* Order(order_id, items) after __post_init__, constructed at time now
ConstructOrder(items, rate, now) ==
    [exists |-> TRUE, items |-> items,
     total_amount |-> calculate_amounts(items, rate).total_amount,
     tax_amount |-> calculate_amounts(items, rate).tax_amount,
     final_amount |-> calculate_amounts(items, rate).final_amount,
     created_at |-> now, updated_at |-> now]

\* A variant of add_item that appends without recalculating the amounts
add_item_stale(order, item, rate, now) ==
    [order EXCEPT !.items = Append(order.items, item), !.updated_at = now]

\* Order.add_item
add_item(order, item, rate, now) ==
    LET items == Append(order.items, item)
    IN  [order EXCEPT !.items = items,
                      !.total_amount = calculate_amounts(items, rate).total_amount,
                      !.tax_amount = calculate_amounts(items, rate).tax_amount,
                      !.final_amount = calculate_amounts(items, rate).final_amount,
                      !.updated_at = now]

\* A variant of remove_item that stamps updated_at on every call
remove_item_touching(order, menu_name, rate, now) ==
    LET Kept(item) == item.menu_name # menu_name
        items == SelectSeq(order.items, Kept)
    IN  [order |-> [order EXCEPT !.items = items,
                       !.total_amount = calculate_amounts(items, rate).total_amount,
                       !.tax_amount = calculate_amounts(items, rate).tax_amount,
                       !.final_amount = calculate_amounts(items, rate).final_amount,
                       !.updated_at = now],
         ret |-> Len(items) < Len(order.items)]

\* Order.remove_item: the order afterwards and the returned bool
remove_item(order, menu_name, rate, now) ==
    LET Kept(item) == item.menu_name # menu_name
        items == SelectSeq(order.items, Kept)
    IN  IF Len(items) < Len(order.items)
        THEN [order |-> [order EXCEPT !.items = items,
                            !.total_amount = calculate_amounts(items, rate).total_amount,
                            !.tax_amount = calculate_amounts(items, rate).tax_amount,
                            !.final_amount = calculate_amounts(items, rate).final_amount,
                            !.updated_at = now],
              ret |-> TRUE]
        ELSE [order |-> [order EXCEPT !.items = items], ret |-> FALSE]

\* settings.tax_rate in percent: 0, 0.1 and 0.2
TaxRates == {0, 10, 20}

\* the items handed to the Order: two menu items, and one whose name is not in
\* the menu database (its subtotal is base_price * quantity)
OrderItemChoices ==
    { NewOrderItem("americano", 2, BEVERAGE, 4500, GRANDE, <<>>),
      NewOrderItem("cake", 1, DESSERT, 6000, NoValue, <<"whipped_cream">>),
      NewOrderItem("seasonal_special", 3, DESSERT, 333, NoValue, <<>>) }

\* the names remove_item is called with
RemovalNames == {"americano", "seasonal_special", "bagel"}

\* Order(order_id=..., items=items)
OrderConstruct(items) ==
    /\ ~theOrder.exists
    /\ theOrder' = ConstructOrder(items, tax_rate, clock)
    /\ lastCall' = [fn |-> "Order", repeated |-> FALSE]
    /\ UNCHANGED <<modelVars, storeVars, agentVars, servingVars>>

\* theOrder.add_item(item)
OrderAddItem(item) ==
    /\ theOrder.exists
    /\ Len(theOrder.items) < MaxItems
    /\ theOrder' = add_item(theOrder, item, tax_rate, clock)
    /\ lastCall' = [fn |-> "add_item", repeated |-> FALSE]
    /\ UNCHANGED <<modelVars, storeVars, agentVars, servingVars>>

\* theOrder.remove_item(menu_name); repeated: the call before was the same call
OrderRemoveItem(menu_name) ==
    /\ theOrder.exists
    /\ LET out == remove_item(theOrder, menu_name, tax_rate, clock)
       IN  /\ theOrder' = out.order
           /\ lastCall' = [fn |-> "remove_item", menu_name |-> menu_name,
                           before |-> theOrder, ret |-> out.ret,
                           repeated |-> lastCall.fn = "remove_item"
                                            /\ lastCall.menu_name = menu_name]
    /\ UNCHANGED <<modelVars, storeVars, agentVars, servingVars>>

InitOrder ==
    /\ orders = <<>> /\ order_history = <<>> /\ clock = 0 /\ nextOid = 0
    /\ tax_rate \in TaxRates
    /\ AgentIdle /\ ServingIdle /\ ModelIdle /\ CallIdle

NextOrder ==
    \/ \E items \in {<<>>} \cup {<<a>> : a \in OrderItemChoices}
                      \cup {<<a, b>> : a \in OrderItemChoices, b \in OrderItemChoices} :
          OrderConstruct(items)
    \/ \E item \in OrderItemChoices : OrderAddItem(item)
    \/ \E menu_name \in RemovalNames : OrderRemoveItem(menu_name)
    \/ SvcTick

SpecOrder == InitOrder /\ [][NextOrder]_vars

\* ------------------------------------------------------------------
\* Properties of the Order object (SpecOrder)
\* ------------------------------------------------------------------
\* the sum of the subtotals of an item list
RECURSIVE SubtotalSum(_, _)
SubtotalSum(items, n) == IF n = 0 THEN 0 ELSE items[n].subtotal + SubtotalSum(items, n - 1)

\* C16: for every order, after construction and after any sequence of add_item
\* and remove_item calls, total_amount is the sum of the item subtotals,
\* tax_amount is floor(total_amount * tax_rate) and final_amount is
\* total_amount + tax_amount, for a tax rate of 0, 0.1 or 0.2
C16_AmountsConsistent ==
    theOrder.exists =>
        /\ theOrder.total_amount = SubtotalSum(theOrder.items, Len(theOrder.items))
        /\ theOrder.tax_amount = (theOrder.total_amount * tax_rate) \div 100
        /\ theOrder.final_amount = theOrder.total_amount + theOrder.tax_amount

\* an order of three items after an add_item, under a rate of 0.1, whose tax is
\* rounded down (the total is not a multiple of 10)
C16_Witness ==
    /\ theOrder.exists
    /\ lastCall.fn = "add_item"
    /\ Len(theOrder.items) = 3
    /\ tax_rate = 10
    /\ theOrder.total_amount % 10 # 0
    /\ theOrder.tax_amount > 0

\* C17: remove_item with a menu name that no item of the order has returns
\* false and leaves the item list, total_amount, tax_amount, final_amount and
\* updated_at as they were, at every repetition
C17_RemoveMissingIsNoOp ==
    /\ lastCall.fn = "remove_item"
    /\ \A i \in DOMAIN lastCall.before.items :
          lastCall.before.items[i].menu_name # lastCall.menu_name
    => /\ lastCall.ret = FALSE
       /\ theOrder.items = lastCall.before.items
       /\ theOrder.total_amount = lastCall.before.total_amount
       /\ theOrder.tax_amount = lastCall.before.tax_amount
       /\ theOrder.final_amount = lastCall.before.final_amount
       /\ theOrder.updated_at = lastCall.before.updated_at

\* a repeated remove_item of a name the order, which has items, does not hold,
\* made after the clock has moved on from updated_at
C17_Witness ==
    /\ lastCall.fn = "remove_item"
    /\ lastCall.repeated
    /\ lastCall.ret = FALSE
    /\ theOrder.items # <<>>
    /\ \A i \in DOMAIN theOrder.items : theOrder.items[i].menu_name # lastCall.menu_name
    /\ clock > theOrder.updated_at
\* ------------------------------------------------------------------
\* Pricing: MenuItem.get_price and the subtotal of an OrderItem, called on every
\* menu item of the database with every size (NoValue: no size given)
\* ------------------------------------------------------------------
PriceQuantities == {1, 2}

\* MENU_DATABASE[name].get_price(size)
CallGetPrice(name, size) ==
    /\ lastCall' = [fn |-> "get_price", name |-> name, size |-> size, quantity |-> 1,
                    ret |-> get_price(name, size)]
    /\ UNCHANGED <<theOrder, modelVars, storeVars, agentVars, servingVars>>

\* OrderItem(menu_name=name, quantity=quantity, size=size, ...).subtotal
CallSubtotal(name, quantity, size) ==
    /\ lastCall' = [fn |-> "OrderItem", name |-> name, size |-> size, quantity |-> quantity,
                    ret |-> NewOrderItem(name, quantity, get_menu_item(name).category,
                                         get_menu_item(name).base_price, size, <<>>).subtotal]
    /\ UNCHANGED <<theOrder, modelVars, storeVars, agentVars, servingVars>>

InitPrice == StoreInit /\ AgentIdle /\ ServingIdle /\ ModelIdle /\ CallIdle

NextPrice ==
    \/ \E name \in DOMAIN MENU_DATABASE, size \in SizeOption \cup {NoValue} :
          CallGetPrice(name, size)
    \/ \E name \in DOMAIN MENU_DATABASE, quantity \in PriceQuantities,
          size \in SizeOption \cup {NoValue} : CallSubtotal(name, quantity, size)

SpecPrice == InitPrice /\ [][NextPrice]_vars

\* the surcharge of a size for a menu item that offers it
SizeDelta(size) == CASE size = GRANDE -> 500 [] size = VENTI -> 1000 [] OTHER -> 0

\* the price of a menu item when the surcharge applies to offered sizes only
PriceIfOffered(name, size) ==
    MENU_DATABASE[name].base_price
        + (IF size \in MENU_DATABASE[name].size_options THEN SizeDelta(size) ELSE 0)

\* C18: the size surcharge (Grande +500, Venti +1000) is added only if the menu
\* item offers the size; get_price with a size the item does not offer, with
\* Tall or with no size returns the base price, and the subtotal of an order
\* item is that price times the quantity
C18_SurchargeOnlyIfOffered ==
    /\ lastCall.fn = "get_price" => lastCall.ret = PriceIfOffered(lastCall.name, lastCall.size)
    /\ lastCall.fn = "OrderItem" =>
          lastCall.ret = PriceIfOffered(lastCall.name, lastCall.size) * lastCall.quantity
\* ------------------------------------------------------------------
\* The OrderService queried: orders are created and moved as in SpecStore, and
\* get_order, update_order_status, cancel_order, OrderAgent.cancel_order and
\* get_popular_items are called with any order id and any top_n. lastCall
\* records the call, the store it found and what it returned.
\* ------------------------------------------------------------------
QueryItemLists ==
    { <<ItemData("americano", 2, NoValue, NoValue)>>,
      <<ItemData("cafe_latte", 1, GRANDE, ICE), ItemData("americano", 1, NoValue, NoValue)>>,
      <<ItemData("iced_tea", 3, NoValue, NoValue), ItemData("cafe_latte", 1, NoValue, NoValue)>> }

QueryStatuses == {PREPARING, COMPLETED, CANCELLED}
\* the ids a call is made with: those an order can get in this run, and one no
\* order has
QueryIds == {generate_order_id(0, uuid) : uuid \in UuidPrefixes} \cup {NoId}
TopNs == 0..3

\* OrderAgent.cancel_order: the store afterwards and the success of the result
agent_cancel_order(store, order_id) ==
    LET cancelled == cancel_order(store, order_id)
    IN  [store |-> cancelled.store, ret |-> cancelled.ret]

\* await order_service.create_order_from_items(items_data, category)
CallCreateOrder(items_data, category, uuid) ==
    /\ nextOid < MaxOrders
    /\ LET r == create_order_from_items(TheStore, nextOid + 1,
                    generate_order_id(clock, uuid), items_data, category, tax_rate)
       IN  /\ orders' = r.store.orders
           /\ order_history' = r.store.order_history
    /\ nextOid' = nextOid + 1
    /\ lastCall' = [fn |-> "create_order_from_items"]
    /\ UNCHANGED <<theOrder, modelVars, clock, tax_rate, agentVars, servingVars>>

\* await order_service.get_order(order_id)
CallGetOrder(order_id) ==
    /\ lastCall' = [fn |-> "get_order", order_id |-> order_id, before |-> TheStore,
                    ret |-> get_order(TheStore, order_id)]
    /\ UNCHANGED <<theOrder, modelVars, storeVars, agentVars, servingVars>>

\* await order_service.update_order_status(order_id, new_status)
CallUpdateOrderStatus(order_id, new_status) ==
    /\ LET r == update_order_status(TheStore, order_id, new_status)
       IN  /\ orders' = r.store.orders
           /\ order_history' = r.store.order_history
           /\ lastCall' = [fn |-> "update_order_status", order_id |-> order_id,
                           before |-> TheStore, ret |-> r.ret]
    /\ UNCHANGED <<theOrder, modelVars, clock, nextOid, tax_rate, agentVars, servingVars>>

\* await order_service.cancel_order(order_id)
CallCancelOrder(order_id) ==
    /\ LET r == cancel_order(TheStore, order_id)
       IN  /\ orders' = r.store.orders
           /\ order_history' = r.store.order_history
           /\ lastCall' = [fn |-> "cancel_order", order_id |-> order_id,
                           before |-> TheStore, ret |-> r.ret]
    /\ UNCHANGED <<theOrder, modelVars, clock, nextOid, tax_rate, agentVars, servingVars>>

\* await order_agent.cancel_order(order_id)
CallAgentCancelOrder(order_id) ==
    /\ LET r == agent_cancel_order(TheStore, order_id)
       IN  /\ orders' = r.store.orders
           /\ order_history' = r.store.order_history
           /\ lastCall' = [fn |-> "OrderAgent.cancel_order", order_id |-> order_id,
                           before |-> TheStore, ret |-> r.ret]
    /\ UNCHANGED <<theOrder, modelVars, clock, nextOid, tax_rate, agentVars, servingVars>>

\* await order_service.get_popular_items(top_n)
CallGetPopularItems(top_n) ==
    /\ lastCall' = [fn |-> "get_popular_items", top_n |-> top_n, before |-> TheStore,
                    ret |-> get_popular_items(order_history, top_n)]
    /\ UNCHANGED <<theOrder, modelVars, storeVars, agentVars, servingVars>>

InitQueries == StoreInit /\ AgentIdle /\ ServingIdle /\ ModelIdle /\ CallIdle

NextQueries ==
    \/ \E items_data \in QueryItemLists, uuid \in UuidPrefixes :
          CallCreateOrder(items_data, BEVERAGE, uuid)
    \/ \E order_id \in QueryIds : CallGetOrder(order_id)
    \/ \E order_id \in QueryIds, new_status \in QueryStatuses :
          CallUpdateOrderStatus(order_id, new_status)
    \/ \E order_id \in QueryIds : CallCancelOrder(order_id)
    \/ \E order_id \in QueryIds : CallAgentCancelOrder(order_id)
    \/ \E top_n \in TopNs : CallGetPopularItems(top_n)

SpecQueries == InitQueries /\ [][NextQueries]_vars

\* ------------------------------------------------------------------
\* Properties of the queried OrderService (SpecQueries)
\* ------------------------------------------------------------------
\* the quantity of a menu over the items of one order
RECURSIVE QuantityIn(_, _, _)
QuantityIn(items, name, n) ==
    IF n = 0 THEN 0
    ELSE (IF items[n].menu_name = name THEN items[n].quantity ELSE 0)
             + QuantityIn(items, name, n - 1)

\* the quantity of a menu over the first n orders of the history that are Completed
RECURSIVE CompletedQuantity(_, _)
CompletedQuantity(name, n) ==
    IF n = 0 THEN 0
    ELSE (IF order_history[n].status = COMPLETED
          THEN QuantityIn(order_history[n].items, name, Len(order_history[n].items))
          ELSE 0) + CompletedQuantity(name, n - 1)

\* where a menu is first met in the Completed orders of the history: the pair of
\* the order's and the item's position, as one number
Encounters(name) ==
    UNION { {100 * n + i : i \in {i \in DOMAIN order_history[n].items :
                                      order_history[n].items[i].menu_name = name}} :
            n \in {n \in DOMAIN order_history : order_history[n].status = COMPLETED} }
FirstEncounter(name) == CHOOSE e \in Encounters(name) : \A f \in Encounters(name) : e <= f

CompletedMenus == {name \in DOMAIN MENU_DATABASE : Encounters(name) # {}}

\* entry a ranks before entry b
RanksBefore(a, b) ==
    \/ a.order_count > b.order_count
    \/ a.order_count = b.order_count
          /\ FirstEncounter(a.menu_name) < FirstEncounter(b.menu_name)

\* C19: get_popular_items(top_n) returns at most top_n entries, the most ordered
\* menus in descending order of count with ties in first-encounter order, where
\* the count of a menu is the sum of its quantities over the orders of the
\* history whose status is Completed; cancelled and active orders are not counted
C19_PopularItems ==
    lastCall.fn = "get_popular_items" =>
        LET ret == lastCall.ret
        IN  /\ Len(ret) <= lastCall.top_n
            /\ Len(ret) = lastCall.top_n \/ Len(ret) = Cardinality(CompletedMenus)
            /\ \A k \in DOMAIN ret :
                  /\ ret[k].menu_name \in CompletedMenus
                  /\ ret[k].order_count = CompletedQuantity(ret[k].menu_name, Len(order_history))
            /\ \A k \in DOMAIN ret : \A l \in DOMAIN ret : k < l => RanksBefore(ret[k], ret[l])
            /\ \A name \in CompletedMenus :
                  (\A k \in DOMAIN ret : ret[k].menu_name # name) =>
                      \A k \in DOMAIN ret :
                          RanksBefore(ret[k], [menu_name |-> name,
                                               order_count |-> CompletedQuantity(name, Len(order_history))])

\* two menus returned with equal counts from a history that also holds a
\* cancelled order, with a menu left out by top_n or an order still active
C19_Witness ==
    /\ lastCall.fn = "get_popular_items"
    /\ Len(lastCall.ret) = 2
    /\ lastCall.ret[1].order_count = lastCall.ret[2].order_count
    /\ lastCall.ret[1].menu_name = "cafe_latte"
    /\ \E n \in DOMAIN order_history : order_history[n].status = CANCELLED

\* C20: for an order id that is not in the active map, get_order returns none,
\* update_order_status and cancel_order return false (OrderAgent.cancel_order a
\* failed result), and the active map and the history are left as they were
C20_UnknownIdIsRefused ==
    /\ lastCall.fn \in {"get_order", "update_order_status", "cancel_order",
                        "OrderAgent.cancel_order"}
    /\ lastCall.order_id \notin DOMAIN lastCall.before.orders
    => /\ lastCall.ret = (IF lastCall.fn = "get_order" THEN NoValue ELSE FALSE)
       /\ TheStore = lastCall.before

\* cancel_order has been called with the id of an order that was cancelled
\* before, while another order is active
C20_Witness ==
    /\ lastCall.fn = "cancel_order"
    /\ lastCall.ret = FALSE
    /\ \E n \in DOMAIN order_history : order_history[n].order_id = lastCall.order_id
    /\ DOMAIN orders # {}
\* ------------------------------------------------------------------
\* The history queried: orders are created and moved as in SpecQueries, and
\* get_order_history is called with any limit
\* ------------------------------------------------------------------
\* seq[-n:]
SliceLast(seq, n) ==
    IF n = 0 THEN seq
    ELSE IF n > 0 THEN SubSeq(seq, (IF n < Len(seq) THEN Len(seq) - n ELSE 0) + 1, Len(seq))
    ELSE SubSeq(seq, (IF -n < Len(seq) THEN -n ELSE Len(seq)) + 1, Len(seq))

\* OrderService.get_order_history
get_order_history(history, limit) == SliceLast(history, limit)

HistoryLimits == 0..3

\* await order_service.get_order_history(limit)
CallGetOrderHistory(limit) ==
    /\ lastCall' = [fn |-> "get_order_history", limit |-> limit, before |-> TheStore,
                    ret |-> get_order_history(order_history, limit)]
    /\ UNCHANGED <<theOrder, modelVars, storeVars, agentVars, servingVars>>

InitHistory == StoreInit /\ AgentIdle /\ ServingIdle /\ ModelIdle /\ CallIdle

NextHistory ==
    \/ \E items_data \in QueryItemLists, uuid \in UuidPrefixes :
          CallCreateOrder(items_data, BEVERAGE, uuid)
    \/ \E order_id \in QueryIds, new_status \in QueryStatuses :
          CallUpdateOrderStatus(order_id, new_status)
    \/ \E limit \in HistoryLimits : CallGetOrderHistory(limit)

SpecHistory == InitHistory /\ [][NextHistory]_vars

\* C21: get_order_history(limit) returns the most recent min(limit, history
\* length) orders of the history in history order, for every limit >= 0, and
\* never more than limit entries
C21_MostRecentLimit ==
    lastCall.fn = "get_order_history" =>
        LET n == IF lastCall.limit < Len(order_history) THEN lastCall.limit
                 ELSE Len(order_history)
        IN  /\ lastCall.ret = SubSeq(order_history, Len(order_history) - n + 1,
                                     Len(order_history))
            /\ Len(lastCall.ret) <= lastCall.limit
\* ------------------------------------------------------------------
\* SpecServingSeq: route() calls on one ServingRouter made one after the other
\* (a call starts only when no call is in flight)
\* ------------------------------------------------------------------
RouteStartSeq(query, force_local, force_cloud, dt) ==
    /\ routes = <<>>
    /\ RouteStart(query, force_local, force_cloud, dt)

NextServingSeq ==
    \/ \E query \in Queries, force_local \in BOOLEAN, force_cloud \in BOOLEAN, dt \in {0, 1} :
          RouteStartSeq(query, force_local, force_cloud, dt)
    \/ \E id \in DOMAIN routes, dt \in {0, 1} : InitReturn(id, dt)
    \/ \E id \in DOMAIN routes, available \in BOOLEAN : ProbeReturn(id, available)
    \/ ServingTick

SpecServingSeq == InitServing /\ [][NextServingSeq]_vars

\* the cache entry calls for a probe at time now: no check has been made, or the
\* entry is not younger than the interval
Stale(status, now) == ~status.checked \/ now - status.last_checked >= check_interval

\* a route call returns in this step
RouteReturns == routeStats'.completed = routeStats.completed + 1

C29_CacheNeverRolledBack ==
    [][ local_model_status.checked =>
            /\ local_model_status'.checked
            /\ local_model_status'.last_checked >= local_model_status.last_checked ]_vars
\* ------------------------------------------------------------------
\* The active map as concurrent runs see it (Spec). A state of the pipeline is a
\* point where every run is suspended in a gateway call, has returned or has not
\* started: what any coroutine scheduled at that point can read.
\* ------------------------------------------------------------------
\* task i is suspended in a gateway call
SuspendedInGateway(i) == tasks[i].pc \in {"classify_wait", "extract_wait"}

\* C28: in a batch of concurrent process_order runs no order of the active map
\* has status Pending at any point where another run or a store query can be
\* scheduled: the order is created and set to Confirmed without a suspension in
\* between
C28_NoPendingObserved == \A id \in DOMAIN orders : orders[id].status # PENDING

\* one run has confirmed its order while another run is suspended in a gateway call
C28_Witness ==
    \E i, j \in DOMAIN tasks :
        /\ SuspendedInGateway(j)
        /\ tasks[i].pc = "done" /\ tasks[i].result.success
        /\ tasks[i].result.order_id \in DOMAIN orders
        /\ orders[tasks[i].result.order_id].status = CONFIRMED
\* ------------------------------------------------------------------
\* The pipeline with the extraction step on record (SpecConfirm): as Spec, and
\* the step in which a run comes back from its extraction call notes in lastCall
\* the category the run was routed to, the list the extraction step produced
\* (gateway answer or fallback) and the result of the run.
\* ------------------------------------------------------------------
ConfirmTexts ==
    { <<"ice_kr", " ", "americano", " ", "2", "gae">>,
      <<"bagel", " ", "han", " ", "gae">>,
      <<"1", " ">> }

ConfirmItemLists ==
    { <<ItemData("americano", 1, NoValue, NoValue), ItemData("bagel", 1, NoValue, NoValue)>>,
      <<ItemData("bagel", 150, NoValue, NoValue), ItemData("americano", 2, "Tall", "Ice")>>,
      <<PartialItem({"quantity"}, NoValue, 1), ItemData("bagel", 1, NoValue, NoValue)>>,
      <<ItemData("cake", 1, NoValue, NoValue)>>,
      <<NotADict>> }

ConfirmResponses ==
    {ExtractionResponse("error", <<>>)}
        \cup {ExtractionResponse("json", l) : l \in ConfirmItemLists}

\* the extraction call of task i comes back; process_order runs to its return
ExtractReturnRecorded(i, response, uuid) ==
    /\ batch = "running"
    /\ tasks[i].pc = "extract_wait"
    /\ LET out == after_extraction(TheStore, tasks[i].text, tasks[i].category, response,
                                   nextOid + 1, generate_order_id(clock, uuid), tax_rate)
       IN  /\ tasks' = [tasks EXCEPT ![i].pc = "done",
                                     ![i].ekind = IF response.kind \in FailureKinds
                                                  THEN "failed" ELSE "json",
                                     ![i].result = out.result]
           /\ lastCall' = [fn |-> "process_order", category |-> tasks[i].category,
                           extracted |-> extract_order_items(
                                             response, CleanText(tasks[i].text),
                                             get_available_menus(tasks[i].category)),
                           before |-> TheStore, result |-> out.result]
           /\ orders' = out.store.orders
           /\ order_history' = out.store.order_history
           /\ nextOid' = IF out.result.success THEN nextOid + 1 ELSE nextOid
    /\ UNCHANGED <<theOrder, modelVars, batch, results, clock, tax_rate, servingVars>>

NextConfirm ==
    \/ \E order_texts \in [1..NumTasks -> ConfirmTexts] : StartBatch(order_texts)
    \/ \E i \in DOMAIN tasks : ProcessStart(i)
    \/ \E i \in DOMAIN tasks, response \in ClassificationResponses : ClassifyReturn(i, response)
    \/ \E i \in DOMAIN tasks, response \in ConfirmResponses, uuid \in UuidPrefixes :
          ExtractReturnRecorded(i, response, uuid)
    \/ BatchJoin

SpecConfirm == Init /\ [][NextConfirm]_vars

\* the menus named by a list of item dicts / of OrderItems
MenusOfDicts(items) == [k \in DOMAIN items |-> items[k].menu]
MenusOfItems(items) == [k \in DOMAIN items |-> items[k].menu_name]

\* the item dicts of a list that name an available menu of the category
NamesAvailable(category, item) ==
    /\ "menu" \in item.keys
    /\ \E k \in DOMAIN get_menu_by_category(category) :
          /\ get_menu_by_category(category)[k] = item.menu
          /\ MENU_DATABASE[item.menu].available
WithinCategory(category, items) ==
    LET Keep(item) == NamesAvailable(category, item) IN SelectSeq(items, Keep)

\* C27: every order process_order confirms has at least one item and every item
\* names an available menu of the one category the run was routed to; the items
\* of the extracted list that name no such menu are not in the order (the order
\* holds exactly the others, in list order), and no order of the active map
\* holds an item of a menu outside the category recorded on the item
C27_ConfirmedItemsInCategory ==
    /\ (lastCall.fn = "process_order" /\ lastCall.result.success) =>
          LET placed == orders[lastCall.result.order_id]
          IN  /\ lastCall.category \in MenuCategory
              /\ placed.oid = lastCall.result.oid
              /\ placed.status = CONFIRMED
              /\ placed.items # <<>>
              /\ \A k \in DOMAIN placed.items :
                    /\ placed.items[k].menu_name
                          \in SeqRange(get_menu_by_category(lastCall.category))
                    /\ MENU_DATABASE[placed.items[k].menu_name].available
                    /\ placed.items[k].category = lastCall.category
              /\ MenusOfItems(placed.items)
                    = MenusOfDicts(WithinCategory(lastCall.category, lastCall.extracted))
    /\ \A id \in DOMAIN orders :
          /\ orders[id].items # <<>>
          /\ \A k \in DOMAIN orders[id].items :
                MENU_DATABASE[orders[id].items[k].menu_name].category
                    = orders[id].items[k].category

\* a run routed to the beverages got back an americano and a bagel of quantity
\* 150, and confirmed an order of the americano alone
C27_Witness ==
    /\ lastCall.fn = "process_order"
    /\ lastCall.result.success
    /\ lastCall.category = BEVERAGE
    /\ MenusOfDicts(lastCall.extracted) = <<"bagel", "americano">>
    /\ MenusOfItems(orders[lastCall.result.order_id].items) = <<"americano">>
\* ------------------------------------------------------------------
\* The life of an order (SpecLifecycle): orders are created, set to any status
\* and cancelled through the OrderService, with any id. lastCall records the
\* call, the store it found and what it returned.
\* ------------------------------------------------------------------
NextLifecycle ==
    \/ \E items_data \in StoreItemLists, uuid \in UuidPrefixes :
          CallCreateOrder(items_data, BEVERAGE, uuid)
    \/ \E order_id \in QueryIds, new_status \in OrderStatus :
          CallUpdateOrderStatus(order_id, new_status)
    \/ \E order_id \in QueryIds : CallCancelOrder(order_id)

SpecLifecycle == InitQueries /\ [][NextLifecycle]_vars

\* the ids of the orders of a history
HistoryIds(history) == {history[i].order_id : i \in DOMAIN history}

NonTerminalStatuses == {PENDING, PROCESSING, CONFIRMED, PREPARING, READY}

\* the call on record is an update_order_status or a cancel_order
StatusCall == lastCall.fn \in {"update_order_status", "cancel_order"}

\* C23: an order that has reached Completed or Cancelled keeps that status (the
\* entries of the history are never changed or removed), every later
\* update_order_status or cancel_order with its id returns false, and
\* cancel_order on an active order, whatever its non-terminal status, returns
\* true and moves the order to the history as Cancelled
C23_TerminalIsFinal ==
    /\ [](StatusCall =>
            /\ lastCall.order_id \in HistoryIds(lastCall.before.order_history)
                  => ~lastCall.ret
            /\ (lastCall.fn = "cancel_order"
                   /\ lastCall.order_id \in DOMAIN lastCall.before.orders) =>
                  /\ lastCall.before.orders[lastCall.order_id].status \in NonTerminalStatuses
                  /\ lastCall.ret
                  /\ lastCall.order_id \notin DOMAIN orders
                  /\ order_history = Append(lastCall.before.order_history,
                        [lastCall.before.orders[lastCall.order_id]
                            EXCEPT !.status = CANCELLED]))
    /\ [][/\ Len(order_history') >= Len(order_history)
          /\ \A i \in DOMAIN order_history :
                /\ order_history'[i] = order_history[i]
                /\ order_history[i].status \in TerminalStatuses]_vars
\* ------------------------------------------------------------------
\* The fallback extractor called directly (SpecFallback):
\* LLMService._fallback_extraction(order_text, available_menus) on a text and a
\* menu list. lastCall records the arguments and the returned list.
\* ------------------------------------------------------------------
FallbackTexts ==
    { <<"americano", " ", "2", "gae">>,
      <<"americano", " ", "3", "gae", " ", "cake", " ", "1", "gae">>,
      <<"2", " ", "americano", " ", "3">>,
      <<"ice_kr", " ", "americano">>,
      <<"Venti", " ", "cafe_latte", " ", "Hot">>,
      <<"tol_kr", " ", "iced_tea", " ", "3">>,
      <<"cheesecake", " ", "han", " ", "gae">>,
      <<"bagel", " ", "1", " ", "pizza", " ", "2">>,
      <<"annyeong">>,
      <<"3">>,
      <<>>,
      <<"blend", " ", "americano">>,
      <<"house", " ", "blend", " ", "2">>,
      <<"hong", " ", "tcha", " ", "Grande">>,
      <<"tcha", " ", "americano">>,
      <<"hong", " ", "americano", " ", "tcha">> }

FallbackMenuLists ==
    { get_available_menus(c) : c \in MenuCategory }
        \cup { <<"americano">>, <<>>, <<"house blend", "americano">>,
               <<"hong tcha", "americano">>, <<"cake", "americano", "bagel">> }

CallFallbackExtraction(order_text, available_menus) ==
    /\ lastCall' = [fn |-> "_fallback_extraction", order_text |-> order_text,
                    available_menus |-> available_menus,
                    ret |-> fallback_extraction(order_text, available_menus)]
    /\ UNCHANGED <<theOrder, modelVars, storeVars, agentVars, servingVars>>

InitFallback == StoreInit /\ AgentIdle /\ ServingIdle /\ ModelIdle /\ CallIdle

NextFallback ==
    \E order_text \in FallbackTexts, available_menus \in FallbackMenuLists :
        CallFallbackExtraction(order_text, available_menus)

SpecFallback == InitFallback /\ [][NextFallback]_vars

\* the first digit 1-9 of the text, reading the text from its start; 1 if none
FirstDigitInText(order_text) ==
    LET at == {i \in DOMAIN order_text : order_text[i] \in SeqRange(DigitStr)}
        first == CHOOSE i \in at : \A j \in at : i <= j
    IN  IF at = {} THEN 1
        ELSE CHOOSE d \in DOMAIN DigitStr : DigitStr[d] = order_text[first]

\* the positions of the menus of the list that the text names
MatchingMenus(order_text, available_menus) ==
    {i \in DOMAIN available_menus : MenuMatches(available_menus[i], order_text)}

\* C25: the fallback extractor returns at most one item: the first menu of the
\* available list whose name (or a word of it longer than 2 characters) occurs in
\* the lowered text, with the first digit 1-9 found in the text as quantity (1 if
\* there is none) and size and temperature from the keyword table; the empty list
\* when no menu matches. "americano 2 gae" with americano available gives the one
\* item {americano, 2, no size, no temperature}
C25_FallbackItem ==
    lastCall.fn = "_fallback_extraction" =>
        LET found == MatchingMenus(lastCall.order_text, lastCall.available_menus)
            first == CHOOSE i \in found : \A j \in found : i <= j
        IN  /\ Len(lastCall.ret) <= 1
            /\ found = {} => lastCall.ret = <<>>
            /\ found # {} =>
                  lastCall.ret =
                      << ItemData(lastCall.available_menus[first],
                                  FirstDigitInText(lastCall.order_text),
                                  FallbackSize(lastCall.order_text),
                                  FallbackTemperature(lastCall.order_text)) >>
            /\ (/\ lastCall.order_text = <<"americano", " ", "2", "gae">>
                /\ "americano" \in SeqRange(lastCall.available_menus)) =>
                  lastCall.ret = <<ItemData("americano", 2, NoValue, NoValue)>>
\* ------------------------------------------------------------------
\* ModelRouter.get_selection_stats (src/routers/model_router.py), and the
\* ModelRouter of SpecModel asked for its statistics between the steps of its
\* route() calls (SpecModelStats). The cost fields are left out, as
\* estimated_cost is.
\* ------------------------------------------------------------------
\* counts[key] = counts.get(key, 0) + 1 over a list of keys
RECURSIVE Tally(_, _)
Tally(keys, counts) ==
    IF keys = <<>> THEN counts
    ELSE Tally(Tail(keys),
               IF Head(keys) \in DOMAIN counts
               THEN [counts EXCEPT ![Head(keys)] = @ + 1]
               ELSE (Head(keys) :> 1) @@ counts)

get_selection_stats(history) ==
    IF history = <<>>
    THEN [total_selections |-> 0, model_usage |-> <<>>, complexity_distribution |-> <<>>]
    ELSE [total_selections |-> Len(history),
          model_usage |-> Tally([i \in DOMAIN history |-> history[i].model_name], <<>>),
          complexity_distribution |->
              Tally([i \in DOMAIN history |-> history[i].complexity], <<>>)]

\* router.get_selection_stats()
CallGetSelectionStats ==
    /\ lastCall' = [fn |-> "get_selection_stats", history |-> selection_history,
                    ret |-> get_selection_stats(selection_history)]
    /\ UNCHANGED <<theOrder, modelVars, storeVars, agentVars, servingVars>>

NextModelStats ==
    \/ \E query \in ModelQueries, force_complexity \in ComplexityLevel \cup {NoValue} :
          ModelRouteStart(query, force_complexity)
    \/ \E id \in DOMAIN routes : ModelInitReturn(id)
    \/ \E id \in DOMAIN routes, response \in AnalysisResponses : AnalyzeReturn(id, response)
    \/ \E id \in DOMAIN routes, available \in BOOLEAN : ModelProbeReturn(id, available)
    \/ CallGetSelectionStats

SpecModelStats == InitModel /\ [][NextModelStats]_vars

\* the sum of the counts of a count table
RECURSIVE SumCounts(_)
SumCounts(counts) ==
    IF DOMAIN counts = {} THEN 0
    ELSE LET k == CHOOSE x \in DOMAIN counts : TRUE
         IN  counts[k] + SumCounts([x \in DOMAIN counts \ {k} |-> counts[x]])

\* the number of selections of a history with the given model name / complexity
WithModel(history, name) == Cardinality({i \in DOMAIN history : history[i].model_name = name})
WithComplexity(history, level) ==
    Cardinality({i \in DOMAIN history : history[i].complexity = level})

\* C26: a step in which a route call returns appends the returned selection, and
\* nothing else, to the selection history, also when the complexity analysis
\* failed and medium was taken; no other step changes the history; and
\* get_selection_stats reports the length of the history as total_selections,
\* with the per-model counts and the per-complexity counts each adding up to it
C26_OneSelectionPerRoute ==
    /\ [][IF routeStats'.completed = routeStats.completed + 1
          THEN selection_history' = Append(selection_history, routeStats'.last.selection)
          ELSE selection_history' = selection_history]_vars
    /\ [](/\ Len(selection_history) = routeStats.completed
          /\ lastCall.fn = "get_selection_stats" =>
                LET stats == lastCall.ret
                IN  /\ stats.total_selections = Len(lastCall.history)
                    /\ SumCounts(stats.model_usage) = stats.total_selections
                    /\ SumCounts(stats.complexity_distribution) = stats.total_selections
                    /\ \A name \in DOMAIN stats.model_usage :
                          stats.model_usage[name] = WithModel(lastCall.history, name)
                    /\ \A level \in DOMAIN stats.complexity_distribution :
                          stats.complexity_distribution[level]
                              = WithComplexity(lastCall.history, level))

\* the statistics were taken after two calls returned, one of them with the
\* fallback complexity, on two different models
C26_Witness ==
    /\ lastCall.fn = "get_selection_stats"
    /\ lastCall.ret.total_selections = 2
    /\ routeStats.completed = 2
    /\ \E i \in DOMAIN lastCall.history :
          lastCall.history[i].reason = "Fallback to medium complexity"
    /\ Cardinality(DOMAIN lastCall.ret.model_usage) = 2
\* ------------------------------------------------------------------
\* The pipeline on texts the sanitizer shortens (SpecSanitize): as Spec, with
\* order texts that hold tags and SQL comment marks.
\*   <b></b>      7 characters, nothing left after sanitize_text
\*   --           2 characters, nothing left
\*   1<b>         4 characters, one left
\*   <b>americano 2 gae</b>, americano -- 2 gae     a plain order is left
\* ------------------------------------------------------------------
SanitizeTexts ==
    { <<"<b>", "</b>">>,
      <<"--">>,
      <<"1", "<b>">>,
      <<"<b>", "americano", " ", "2", "gae", "</b>">>,
      <<"americano", " ", "--", " ", "2", "gae">>,
      <<"bagel", " ", "han", " ", "gae">> }

NextSanitize ==
    \/ \E order_texts \in [1..NumTasks -> SanitizeTexts] : StartBatch(order_texts)
    \/ \E i \in DOMAIN tasks : ProcessStart(i)
    \/ \E i \in DOMAIN tasks, response \in ClassificationResponses : ClassifyReturn(i, response)
    \/ \E i \in DOMAIN tasks, response \in ExtractionResponses, uuid \in UuidPrefixes :
          ExtractReturn(i, response, uuid)
    \/ BatchJoin

SpecSanitize == Init /\ [][NextSanitize]_vars

\* the run has handed its clean text to CategoryRouter.route (and, past the
\* classification, to the extraction step)
HandedOver(i) == tasks[i].pc \in {"classify_wait", "extract_wait"} \/ tasks[i].calls > 0

\* C30: the text a run hands to CategoryRouter.route and to the extraction step
\* is not empty and has, after sanitisation and normalisation, at least the 2
\* characters text validation asked of the raw input
C30_CleanTextNotEmpty ==
    \A i \in DOMAIN tasks :
        HandedOver(i) =>
            /\ CleanText(tasks[i].text) # <<>>
            /\ TextLen(Strip(CleanText(tasks[i].text))) >= 2

\* ------------------------------------------------------------------
\* The pipeline with gateway calls that come back (SpecLive): the pipeline of
\* Spec, and
\*   - the event loop runs every coroutine gather has created (ProcessStart),
\*   - every gateway call a run is suspended in comes back, with an answer, a
\*     failure or a timeout (ClassifyReturn, ExtractReturn: _call_openai carries
\*     the request timeout),
\*   - gather returns once every coroutine has finished (BatchJoin).
\* ------------------------------------------------------------------
\* run i can take a step: gather has reached it and it has not run yet, or it is
\* suspended in a gateway call. A step of run i is enabled exactly then, and
\* every step of a run changes its pc.
CanStep(i) ==
    /\ batch = "running"
    /\ i \in DOMAIN tasks
    /\ \/ tasks[i].pc \in {"classify_wait", "extract_wait"}
       \/ tasks[i].pc = "start" /\ \A j \in 1..(i - 1) : tasks[j].pc # "start"

\* the first step of run i, and the return of its extraction call
StartStep(i) == ProcessStart(i)
ExtractStep(i) ==
    \E response \in ExtractionResponses, uuid \in UuidPrefixes :
        ExtractReturn(i, response, uuid)

\* Weak fairness of the steps of every run and of the join. For the first step
\* and the extraction return, WF_vars(A) is written out as
\* []<>(~ENABLED <<A>>_vars) \/ []<><<A>>_vars with the enabling condition spelled
\* out.
Fairness ==
    /\ \A i \in 1..NumTasks :
          WF_vars(\E response \in ClassificationResponses : ClassifyReturn(i, response))
    /\ \A i \in 1..NumTasks :
          \/ []<>(~(CanStep(i) /\ tasks[i].pc = "start"))
          \/ []<><<StartStep(i)>>_vars
    /\ \A i \in 1..NumTasks :
          \/ []<>(~(CanStep(i) /\ tasks[i].pc = "extract_wait"))
          \/ []<><<ExtractStep(i)>>_vars
    /\ WF_vars(BatchJoin)

SpecLive == Init /\ [][Next]_vars /\ Fairness

\* run i has been created and has not returned
Running(i) ==
    i \in DOMAIN tasks /\ tasks[i].pc \in {"start", "classify_wait", "extract_wait"}

\* run i has returned a result: a success with its order, or a failure with a
\* message
Ended(i) ==
    /\ i \in DOMAIN tasks
    /\ tasks[i].pc = "done"
    /\ \/ tasks[i].result.success /\ tasks[i].result.message = "accepted"
       \/ ~tasks[i].result.success /\ tasks[i].result.message
             \in RejectedMessages \cup {"processing_error"}

====
